---- MODULE Spec2Model ----
(***************************************************************************)
(* Reconciliation engine of salary-bot (src/main.py): the visit ledger,    *)
(* the slot toggle with its weekday rule, the collision detector and the   *)
(* submission auditor, driven by the operator sessions (aiogram FSM        *)
(* state + data) that call them.                                           *)
(*                                                                         *)
(* Spec     : the handlers run one at a time, each to completion.          *)
(* SpecConc : the statements of the toggle and submit transactions of two  *)
(*            connections interleave on the shared datastore (PostgreSQL   *)
(*            READ COMMITTED, the engine's default isolation level).       *)
(***************************************************************************)
EXTENDS Integers, Sequences, FiniteSets, TLC

VARIABLES
    merchants,     \* table merchants: rows [id, fio, fio_norm, pass_hash, telegram_id, tu]
    merch_seq,     \* last value of the sequence behind merchants.id (SERIAL)
    supplies,      \* table supplies: rows [point_code, supply_date, boxes]
    visits,        \* table visits: rows [id, merchant_id, point_code, visit_date, slot]
    visit_seq,     \* last value of the sequence behind visits.id (SERIAL)
    submissions,   \* table submissions: rows [id, merchant_id, month_key, submitted_at, updated_after_submit_at]
    sub_seq,       \* last value of the sequence behind submissions.id (SERIAL)
    reimbursements,\* table reimbursements: rows [id, merchant_id, point_code, month_key, amount, note, kind, receipt_file_id, receipt_uploaded_at]
    reimb_seq,     \* last value of the sequence behind reimbursements.id (SERIAL)
    point_rates,   \* table point_rates: rows [point_code, month_key, rate_supply, rate_no_supply, rate_inventory, coffee_enabled, pay_lt5]
    now,           \* the datastore clock read by NOW()
    fsm,           \* per operator handle: the FSM state of the session
    data,          \* per operator handle: the FSM data (point_code, cal_y, cal_m, pr_kind, pr_amount, pr_reimb_id)
    menu,          \* per operator handle: the Friday/Saturday slot menu on display, if any
    tx,            \* per connection: the transaction in flight (SpecConc)
    last,          \* what the handler that ran last did: its request, result and the calls it made
    calc           \* what the aggregation function that was called last returned (SpecPay)

vars == <<merchants, merch_seq, supplies, visits, visit_seq, submissions, sub_seq,
          reimbursements, reimb_seq, point_rates, now,
          fsm, data, menu, tx, last, calc>>

(***************************************************************************)
(* Bounds of the model.                                                    *)
(***************************************************************************)
\* the clock stops here: no handler runs once NOW() has reached MaxTime
MaxTime == 6

(***************************************************************************)
(* Program constants and the data the model runs on.                       *)
(***************************************************************************)
SLOT_DAY == "DAY"
SLOT_FULL_INVENT == "FULL_INVENT"
NULL == 0
DEFAULT_RATE_SUPPLY == 800
DEFAULT_RATE_NO_SUPPLY == 400
DEFAULT_RATE_INVENTORY == 400
DEFAULT_RATE_COFFEE == 100
\* reimbursements.kind
KIND_NOTE == "NOTE"
KIND_REIMB == "REIMB"
\* a nullable TEXT column holds <<>> for NULL and <<s>> for the text s
NoText == <<>>

\* ADMIN_IDS, parsed from the environment
ADMIN_IDS == <<900>>
\* operator handles (Telegram user ids) of the two logged-in merchandisers
Handles == {101, 102}
\* the sets of chats that can be unreachable while a handler runs: none,
\* the administrator's, the merchandisers', all
DownSets == {{}, {900}, {101, 102}, {900, 101, 102}}
\* datetime.utcnow().date() while the model runs
Today == <<2026, 11, 1>>
\* texts an operator types as a point code: two points with supplies, one
\* without, one too short, and the cancel word in lower case
PointInputs == {"2674", "3001", "9999", "12", "otmena"}
\* the day numbers carried by calendar buttons: in November 2026 the 5th is
\* a Thursday and the 6th a Friday, in December 2026 the 5th is a Saturday
\* and the 6th a Sunday
DayInputs == {5, 6}
SlotInputs == {SLOT_DAY, SLOT_FULL_INVENT}
\* connections of SpecConc
Conns == {1, 2}
\* table tu_admins: the territory manager of "tu1" is the administrator
tu_admins == {[tu |-> "tu1", telegram_id |-> 900]}
\* the kinds carried by "pr:kind:<kind>" buttons, and one that is neither
KindInputs == {KIND_NOTE, KIND_REIMB, "X"}
\* texts typed as an amount, letter by letter: two integers, a text that is
\* none, and the cancel word in lower case
AmountInputs == {<<"3", "5", "0">>, <<"-", "2", "0", "0">>, <<"3", "k">>,
                 <<"o", "t", "m", "e", "n", "a">>}
\* texts typed as a comment: one too short, one long enough, the cancel word
CommentInputs == {"ok", "taxi", "otmena"}
\* the operator at work in SpecAdj
AdjHandles == {101}
\* the file id of an uploaded photo or document
FileInputs == {"f1"}
\* the two texts cancel_or_restart answers to
CancelInputs == {"Otmena", "Zanovo"}

(***************************************************************************)
(* Calendar helpers.                                                       *)
(***************************************************************************)
IsLeap(y) == (y % 4 = 0) /\ ((y % 100 # 0) \/ (y % 400 = 0))

DaysBeforeMonth(y, m) ==
    LET t == <<0, 31, 59, 90, 120, 151, 181, 212, 243, 273, 304, 334>>
    IN  t[m] + (IF m > 2 /\ IsLeap(y) THEN 1 ELSE 0)

\* date.toordinal(): days since 0001-01-01, that day being 1
ToOrdinal(d) ==
    LET y1 == d[1] - 1
    IN  y1 * 365 + (y1 \div 4) - (y1 \div 100) + (y1 \div 400)
        + DaysBeforeMonth(d[1], d[2]) + d[3]

month_start(y, m) == <<y, m, 1>>

month_end_exclusive(y, m) == IF m = 12 THEN <<y + 1, 1, 1>> ELSE <<y, m + 1, 1>>

\* (month_end_exclusive - 1 day).day
days_in_month(y, m) ==
    (ToOrdinal(month_end_exclusive(y, m)) - 1) - ToOrdinal(month_start(y, m)) + 1

\* date(y, m, d) raises ValueError outside 1..days_in_month
ValidDate(y, m, d) == m \in 1..12 /\ d >= 1 /\ d <= days_in_month(y, m)

\* date(y, m, d).weekday(), Monday = 0
weekday_of(y, m, d) == (ToOrdinal(<<y, m, d>>) + 6) % 7

\* mutant: Saturday and Sunday, the weekday numbers of a Sunday-first week
full_invent_allowed_sat_sun(y, m, day) == weekday_of(y, m, day) \in {5, 6}

\* mutant: the weekday check is missing
full_invent_allowed_any_day(y, m, day) == TRUE

\* _toggle_slot_and_refresh: wd in (4, 5), the days FULL_INVENT may be put on
full_invent_allowed(y, m, day) == weekday_of(y, m, day) \in {4, 5}

\* mutant: only Friday opens the slot menu
is_fri_sat_friday_only(y, m, day) == weekday_of(y, m, day) = 4

\* cal_day_click: is_fri_sat = (wd == 4 or wd == 5)
is_fri_sat(y, m, day) == weekday_of(y, m, day) = 4 \/ weekday_of(y, m, day) = 5

InMonth(d, y, m) ==
    /\ ToOrdinal(d) >= ToOrdinal(month_start(y, m))
    /\ ToOrdinal(d) < ToOrdinal(month_end_exclusive(y, m))

\* str(v).strip() with the whitespace removed; the inputs hold none
normalize_point_code(txt) == txt

(***************************************************************************)
(* Datastore reads.                                                        *)
(***************************************************************************)
\* SELECT id, fio, tu FROM merchants WHERE telegram_id=:tg; NULL when none
get_merch_by_tg_id(tg) ==
    LET rows == {r \in merchants : r.telegram_id = tg}
    IN  IF rows = {} THEN NULL ELSE (CHOOSE r \in rows : TRUE).id

FioOf(mid) == (CHOOSE r \in merchants : r.id = mid).fio

\* mutant: the SELECT has no date range in its WHERE clause
point_has_any_supply_in_month_any_month(point, y, m) ==
    \E r \in supplies : r.point_code = point

point_has_any_supply_in_month(point, y, m) ==
    \E r \in supplies : r.point_code = point /\ InMonth(r.supply_date, y, m)

\* the row of (merchant, month) in submissions, as a set (empty when none)
get_submission_status(subs, mid, y, m) ==
    {r \in subs : r.merchant_id = mid /\ r.month_key = month_start(y, m)}

(***************************************************************************)
(* Datastore writes.  A table is a set of rows, each with the id its       *)
(* sequence gave it, so a table can hold two rows with the same key: what  *)
(* keeps it from doing so is the UNIQUE constraint the insert enforces.    *)
(***************************************************************************)
VisitKey(r) == <<r.merchant_id, r.point_code, r.visit_date, r.slot>>

VisitKeys(vs) == {VisitKey(r) : r \in vs}

\* mutant: the SELECT leaves out "AND slot=:s"
visits_select_id_any_slot(vs, mid, p, d, s) ==
    LET rows == {r \in vs : r.merchant_id = mid /\ r.point_code = p /\ r.visit_date = d}
    IN  IF rows = {} THEN NULL ELSE (CHOOSE r \in rows : TRUE).id

\* SELECT id FROM visits WHERE merchant_id=:mid AND point_code=:p AND
\* visit_date=:d AND slot=:s, then .scalar(): the first row's id, or NULL
visits_select_id(vs, mid, p, d, s) ==
    LET rows == {r \in vs : VisitKey(r) = <<mid, p, d, s>>}
    IN  IF rows = {} THEN NULL ELSE (CHOOSE r \in rows : TRUE).id

\* mutant: the DELETE matches no row
visits_delete_id_no_row(vs, id) == vs

\* mutant: the DELETE takes every row of the merchant at that point and date
visits_delete_id_whole_day(vs, id) ==
    {r \in vs : \A x \in vs : x.id = id =>
                    <<r.merchant_id, r.point_code, r.visit_date>>
                        # <<x.merchant_id, x.point_code, x.visit_date>>}

\* DELETE FROM visits WHERE id=:id
visits_delete_id(vs, id) == {r \in vs : r.id # id}

\* mutant: the table has no UNIQUE constraint, so no insert conflicts
visits_insert_no_unique(vs, seq, mid, p, d, s) ==
    [rows |-> vs \cup {[id |-> seq + 1, merchant_id |-> mid, point_code |-> p,
                        visit_date |-> d, slot |-> s]},
     seq  |-> seq + 1]

\* INSERT INTO visits ... ON CONFLICT DO NOTHING under
\* UNIQUE(merchant_id, point_code, visit_date, slot); the sequence advances
\* whether or not the row goes in
visits_insert(vs, seq, mid, p, d, s) ==
    LET row == [id |-> seq + 1, merchant_id |-> mid, point_code |-> p,
                visit_date |-> d, slot |-> s]
    IN  [rows |-> IF <<mid, p, d, s>> \in VisitKeys(vs) THEN vs ELSE vs \cup {row},
         seq  |-> seq + 1]

\* add_or_remove_visit after its SELECT returned `existing`: the DELETE by
\* id, or the INSERT, and the pair (existed, added) it returns
add_or_remove_visit_write(vs, seq, existing, mid, p, d, s) ==
    LET ins == visits_insert(vs, seq, mid, p, d, s)
    IN  IF existing # NULL
        THEN [rows |-> visits_delete_id(vs, existing), seq |-> seq,
              existed |-> TRUE, added |-> FALSE]
        ELSE [rows |-> ins.rows, seq |-> ins.seq,
              existed |-> FALSE, added |-> TRUE]

\* mutant: a submitted month is locked, the call changes nothing
add_or_remove_visit_locked(vs, seq, mid, p, d, s) ==
    IF \E r \in submissions : r.merchant_id = mid /\ r.month_key = <<d[1], d[2], 1>>
    THEN [rows |-> vs, seq |-> seq, existed |-> FALSE, added |-> FALSE]
    ELSE add_or_remove_visit_write(vs, seq, visits_select_id(vs, mid, p, d, s), mid, p, d, s)

\* the whole transaction, run with no other transaction in between
add_or_remove_visit(vs, seq, mid, p, d, s) ==
    add_or_remove_visit_write(vs, seq, visits_select_id(vs, mid, p, d, s), mid, p, d, s)

\* mutant: the SELECT leaves out "AND v.merchant_id<>:mid"
find_collisions_with_self(vs, p, d, mid) ==
    {r.merchant_id : r \in {v \in vs : v.point_code = p /\ v.visit_date = d}}

\* mutant: the SELECT also has "AND v.slot='DAY'"
find_collisions_day_slot_only(vs, p, d, mid) ==
    {r.merchant_id : r \in {v \in vs : /\ v.point_code = p
                                       /\ v.visit_date = d
                                       /\ v.merchant_id # mid
                                       /\ v.slot = SLOT_DAY
                                       /\ \E mr \in merchants : mr.id = v.merchant_id}}

\* SELECT DISTINCT v.merchant_id ... WHERE v.point_code=:p AND
\* v.visit_date=:d AND v.merchant_id<>:mid, joined with merchants
find_collisions(vs, p, d, mid) ==
    {r.merchant_id : r \in {v \in vs : /\ v.point_code = p
                                       /\ v.visit_date = d
                                       /\ v.merchant_id # mid
                                       /\ \E mr \in merchants : mr.id = v.merchant_id}}

SubKey(r) == <<r.merchant_id, r.month_key>>

\* INSERT INTO submissions (merchant_id, month_key, submitted_at) under
\* UNIQUE(merchant_id, month_key): a conflicting insert raises
submissions_insert(subs, seq, mid, mk, t) ==
    LET row == [id |-> seq + 1, merchant_id |-> mid, month_key |-> mk,
                submitted_at |-> t, updated_after_submit_at |-> NULL]
        conflict == \E r \in subs : SubKey(r) = <<mid, mk>>
    IN  [rows |-> IF conflict THEN subs ELSE subs \cup {row},
         seq  |-> seq + 1,
         raised |-> conflict]

\* SELECT id FROM submissions WHERE merchant_id=:mid AND month_key=:mk,
\* then .scalar()
submissions_select_id(subs, mid, mk) ==
    LET rows == {r \in subs : SubKey(r) = <<mid, mk>>}
    IN  IF rows = {} THEN NULL ELSE (CHOOSE r \in rows : TRUE).id

\* mutant: a repeated submit stamps the row again
mark_submitted_write_restamp(subs, seq, existing, mid, mk, t) ==
    IF existing # NULL
    THEN [rows |-> {IF r.id = existing THEN [r EXCEPT !.submitted_at = t] ELSE r : r \in subs},
          seq |-> seq, created |-> FALSE, raised |-> FALSE]
    ELSE [rows |-> subs \cup {[id |-> seq + 1, merchant_id |-> mid, month_key |-> mk,
                               submitted_at |-> t, updated_after_submit_at |-> NULL]},
          seq |-> seq + 1, created |-> TRUE, raised |-> FALSE]

\* mark_submitted after its SELECT returned `existing`
mark_submitted_write(subs, seq, existing, mid, mk, t) ==
    LET ins == submissions_insert(subs, seq, mid, mk, t)
    IN  IF existing # NULL
        THEN [rows |-> subs, seq |-> seq, created |-> FALSE, raised |-> FALSE]
        ELSE [rows |-> ins.rows, seq |-> ins.seq, created |-> ~ins.raised,
              raised |-> ins.raised]

\* the whole transaction, run with no other transaction in between
mark_submitted(subs, seq, mid, y, m, t) ==
    mark_submitted_write(subs, seq, submissions_select_id(subs, mid, month_start(y, m)),
                         mid, month_start(y, m), t)

\* mutant: the UPDATE has no merchant in its WHERE clause
touch_updated_after_submit_all_merchants(subs, mid, y, m, t) ==
    {IF r.month_key = month_start(y, m)
        THEN [r EXCEPT !.updated_after_submit_at = t] ELSE r : r \in subs}

\* UPDATE submissions SET updated_after_submit_at=NOW() WHERE merchant_id=:mid
\* AND month_key=:mk
touch_updated_after_submit(subs, mid, y, m, t) ==
    {IF SubKey(r) = <<mid, month_start(y, m)>>
        THEN [r EXCEPT !.updated_after_submit_at = t] ELSE r : r \in subs}

(***************************************************************************)
(* Adjustments: the table reimbursements holds notes and reimbursements.   *)
(***************************************************************************)
\* INSERT INTO reimbursements (merchant_id, point_code, month_key, amount,
\* note, kind) ... RETURNING id; the receipt columns start NULL
reimbursements_insert(rs, seq, mid, p, mk, a, n, k) ==
    [rows |-> rs \cup {[id |-> seq + 1, merchant_id |-> mid, point_code |-> p,
                        month_key |-> mk, amount |-> a, note |-> n, kind |-> k,
                        receipt_file_id |-> NoText, receipt_uploaded_at |-> NULL]},
     seq  |-> seq + 1,
     id   |-> seq + 1]

\* mutant: the UPDATE also writes the file id into the note column
reimbursements_set_receipt_with_note(rs, id, fid, t) ==
    {IF r.id = id /\ r.kind = KIND_REIMB
        THEN [r EXCEPT !.receipt_file_id = <<fid>>, !.receipt_uploaded_at = t, !.note = fid]
        ELSE r : r \in rs}

\* UPDATE reimbursements SET receipt_file_id=:fid, receipt_uploaded_at=NOW()
\* WHERE id=:id AND kind='REIMB'
reimbursements_set_receipt(rs, id, fid, t) ==
    {IF r.id = id /\ r.kind = KIND_REIMB
        THEN [r EXCEPT !.receipt_file_id = <<fid>>, !.receipt_uploaded_at = t]
        ELSE r : r \in rs}

\* DELETE FROM reimbursements WHERE id=:id AND kind='REIMB' AND
\* receipt_file_id IS NULL
reimbursements_delete_draft(rs, id) ==
    {r \in rs : ~(r.id = id /\ r.kind = KIND_REIMB /\ r.receipt_file_id = NoText)}

(***************************************************************************)
(* Rates and the payroll aggregation.                                      *)
(***************************************************************************)
\* SELECT supply_date, boxes FROM supplies of the point and month, as the
\* dict day -> boxes
get_supply_boxes_map(point, y, m) ==
    LET rows == {r \in supplies : r.point_code = point /\ InMonth(r.supply_date, y, m)}
    IN  [d \in {r.supply_date[3] : r \in rows} |->
            (CHOOSE r \in rows : r.supply_date[3] = d).boxes]

\* SELECT visit_date, slot FROM visits of the merchant, point and month, as
\* the dict day -> set of slots
get_visits_for_month(vs, mid, point, y, m) ==
    LET rows == {r \in vs : /\ r.merchant_id = mid /\ r.point_code = point
                            /\ InMonth(r.visit_date, y, m)}
    IN  [d \in {r.visit_date[3] : r \in rows} |->
            {r.slot : r \in {x \in rows : x.visit_date[3] = d}}]

\* mutant: the SELECT has no UNION branch over reimbursements
get_points_for_month_visits_only(vs, rs, mid, y, m) ==
    {p \in {r.point_code : r \in {v \in vs : /\ v.merchant_id = mid
                                              /\ InMonth(v.visit_date, y, m)}} :
        p # ""}

\* the points with a visit in the month or an adjustment for the month
get_points_for_month(vs, rs, mid, y, m) ==
    {p \in {r.point_code : r \in {v \in vs : /\ v.merchant_id = mid
                                              /\ InMonth(v.visit_date, y, m)}}
           \cup {r.point_code : r \in {x \in rs : /\ x.merchant_id = mid
                                                  /\ x.month_key = month_start(y, m)}} :
        p # ""}

\* mutant: the SELECT has no month in its WHERE clause
get_point_rates_any_month(point, y, m) ==
    LET rows == {r \in point_rates : r.point_code = point}
        row  == CHOOSE r \in rows : TRUE
    IN  IF rows = {}
        THEN <<DEFAULT_RATE_SUPPLY, DEFAULT_RATE_NO_SUPPLY, DEFAULT_RATE_INVENTORY, FALSE, FALSE>>
        ELSE <<row.rate_supply, row.rate_no_supply, row.rate_inventory,
               row.coffee_enabled, row.pay_lt5>>

\* the stored row of (point, month), or the defaults when there is none
get_point_rates(point, y, m) ==
    LET rows == {r \in point_rates : r.point_code = point /\ r.month_key = month_start(y, m)}
        row  == CHOOSE r \in rows : TRUE
    IN  IF rows = {}
        THEN <<DEFAULT_RATE_SUPPLY, DEFAULT_RATE_NO_SUPPLY, DEFAULT_RATE_INVENTORY, FALSE, FALSE>>
        ELSE <<row.rate_supply, row.rate_no_supply, row.rate_inventory,
               row.coffee_enabled, row.pay_lt5>>

\* COALESCE(SUM(amount), 0) over a set of rows
RECURSIVE SumAmount(_)
SumAmount(rows) ==
    IF rows = {} THEN 0
    ELSE LET r == CHOOSE x \in rows : TRUE
         IN  r.amount + SumAmount(rows \ {r})

\* mutant: reimb_sum counts only the rows that have their receipt
get_reimb_aggregates_receipts_only(rs, mid, point, y, m) ==
    LET scope == {r \in rs : /\ r.merchant_id = mid /\ r.point_code = point
                             /\ r.month_key = month_start(y, m)}
        reimb == {r \in scope : r.kind = KIND_REIMB}
    IN  <<SumAmount({r \in scope : r.kind = KIND_NOTE}),
          SumAmount({r \in reimb : r.receipt_file_id # NoText}),
          Cardinality(reimb),
          Cardinality({r \in reimb : r.receipt_file_id = NoText})>>

\* (notes_sum, reimb_sum, reimb_count, reimb_missing_receipt)
get_reimb_aggregates(rs, mid, point, y, m) ==
    LET scope == {r \in rs : /\ r.merchant_id = mid /\ r.point_code = point
                             /\ r.month_key = month_start(y, m)}
        reimb == {r \in scope : r.kind = KIND_REIMB}
    IN  <<SumAmount({r \in scope : r.kind = KIND_NOTE}),
          SumAmount(reimb),
          Cardinality(reimb),
          Cardinality({r \in reimb : r.receipt_file_id = NoText})>>

\* the third value of get_reimb_comments: "Да" when a REIMB row of the
\* scope has a receipt_file_id that is not truthy
get_reimb_comments_missing(rs, mid, point, y, m) ==
    \E r \in rs : /\ r.merchant_id = mid /\ r.point_code = point
                  /\ r.month_key = month_start(y, m) /\ r.kind = KIND_REIMB
                  /\ ~(r.receipt_file_id # NoText /\ r.receipt_file_id[1] # "")

\* mutant: fewer than five boxes never count, whatever the flag
effective_has_supply_ignores_flag(boxes, pay_lt5) == boxes >= 5

effective_has_supply(boxes, pay_lt5) ==
    IF boxes <= 0 THEN FALSE
    ELSE IF pay_lt5 THEN TRUE ELSE boxes >= 5

\* the loop of compute_point_total over visits.items()
RECURSIVE PointLoop(_, _, _, _)
PointLoop(days, vmap, boxes_map, rates) ==
    IF days = {}
    THEN [total |-> 0, day_cnt |-> 0, cnt_supply_day |-> 0, cnt_no_supply_day |-> 0,
          cnt_full_inv |-> 0]
    ELSE LET day == CHOOSE d \in days : TRUE
             Step(acc, isDay, isInv, eff) ==
                [total |-> acc.total
                           + (IF isDay THEN (IF eff THEN rates[1] ELSE rates[2]) ELSE 0)
                           + (IF isInv THEN rates[3] ELSE 0),
                 day_cnt |-> acc.day_cnt + (IF isDay THEN 1 ELSE 0),
                 cnt_supply_day |-> acc.cnt_supply_day + (IF isDay /\ eff THEN 1 ELSE 0),
                 cnt_no_supply_day |-> acc.cnt_no_supply_day + (IF isDay /\ ~eff THEN 1 ELSE 0),
                 cnt_full_inv |-> acc.cnt_full_inv + (IF isInv THEN 1 ELSE 0)]
         IN  Step(PointLoop(days \ {day}, vmap, boxes_map, rates),
                  SLOT_DAY \in vmap[day],
                  SLOT_FULL_INVENT \in vmap[day],
                  effective_has_supply(IF day \in DOMAIN boxes_map THEN boxes_map[day] ELSE 0,
                                       rates[5]))

\* mutant: the coffee bonus is paid for FULL_INVENT visits too
compute_point_total_coffee_all_visits(vs, rs, mid, point, y, m) ==
    LET Result(loop, rates, agg, coffee_sum) ==
            [total |-> loop.total + coffee_sum + agg[1] + agg[2],
             cnt_supply_day |-> loop.cnt_supply_day,
             cnt_no_supply_day |-> loop.cnt_no_supply_day,
             cnt_day_total |-> loop.cnt_supply_day + loop.cnt_no_supply_day,
             cnt_full_inv |-> loop.cnt_full_inv,
             notes_sum |-> agg[1],
             reimb_sum |-> agg[2],
             coffee_on |-> rates[4],
             coffee_sum |-> coffee_sum,
             missing_receipts |-> agg[4] > 0]
        Coffee(loop, rates, agg) ==
            Result(loop, rates, agg,
                   IF rates[4] /\ loop.day_cnt + loop.cnt_full_inv > 0
                   THEN DEFAULT_RATE_COFFEE * (loop.day_cnt + loop.cnt_full_inv) ELSE 0)
        Loop(vmap, rates, agg) ==
            Coffee(PointLoop(DOMAIN vmap, vmap, get_supply_boxes_map(point, y, m), rates),
                   rates, agg)
    IN  Loop(get_visits_for_month(vs, mid, point, y, m),
             get_point_rates(point, y, m),
             get_reimb_aggregates(rs, mid, point, y, m))

\* the body of compute_point_total around its loop
compute_point_total(vs, rs, mid, point, y, m) ==
    LET Result(loop, rates, agg, coffee_sum) ==
            [total |-> loop.total + coffee_sum + agg[1] + agg[2],
             cnt_supply_day |-> loop.cnt_supply_day,
             cnt_no_supply_day |-> loop.cnt_no_supply_day,
             cnt_day_total |-> loop.cnt_supply_day + loop.cnt_no_supply_day,
             cnt_full_inv |-> loop.cnt_full_inv,
             notes_sum |-> agg[1],
             reimb_sum |-> agg[2],
             coffee_on |-> rates[4],
             coffee_sum |-> coffee_sum,
             missing_receipts |-> agg[4] > 0]
        Coffee(loop, rates, agg) ==
            Result(loop, rates, agg,
                   IF rates[4] /\ loop.day_cnt > 0
                   THEN DEFAULT_RATE_COFFEE * loop.day_cnt ELSE 0)
        Loop(vmap, rates, agg) ==
            Coffee(PointLoop(DOMAIN vmap, vmap, get_supply_boxes_map(point, y, m), rates),
                   rates, agg)
    IN  Loop(get_visits_for_month(vs, mid, point, y, m),
             get_point_rates(point, y, m),
             get_reimb_aggregates(rs, mid, point, y, m))

\* the loop of compute_overall_total over the points
RECURSIVE OverallLoop(_, _, _, _, _, _)
OverallLoop(points, vs, rs, mid, y, m) ==
    IF points = {} THEN 0
    ELSE LET p == CHOOSE x \in points : TRUE
         IN  compute_point_total(vs, rs, mid, p, y, m).total
             + OverallLoop(points \ {p}, vs, rs, mid, y, m)

\* (total, per_point)
compute_overall_total(vs, rs, mid, y, m) ==
    LET points == get_points_for_month(vs, rs, mid, y, m)
    IN  [total |-> OverallLoop(points, vs, rs, mid, y, m),
         per_point |-> [p \in points |-> compute_point_total(vs, rs, mid, p, y, m).total]]

(***************************************************************************)
(* Notifications.  A handler leaves the calls it made, in order, in        *)
(* last.events.  bot.send_message to a chat in `down` raises.              *)
(***************************************************************************)
Ev(op, to, ok, topic, arg) ==
    [op |-> op, to |-> to, ok |-> ok, topic |-> topic, arg |-> arg]

\* for aid in ADMIN_IDS: try send_message except pass -- one attempt each
notify_admins(topic, arg, down) ==
    [i \in 1..Len(ADMIN_IDS) |->
        Ev("send_message", ADMIN_IDS[i], ADMIN_IDS[i] \notin down, topic, arg)]

\* mutant: the total of the notification is computed over the rows as they
\* were before the handler's own change
maybe_notify_post_submit_change_stale_total(subs, vs, rs, mid, y, m, action, t, down) ==
    LET status == get_submission_status(subs, mid, y, m)
        call   == Ev("maybe_notify_post_submit_change", 0, TRUE, "audit", <<mid, y, m>>)
        touch  == Ev("touch_updated_after_submit", 0, TRUE, "audit", <<mid, y, m>>)
        total  == compute_overall_total(visits, reimbursements, mid, y, m).total
    IN  IF status = {}
        THEN [subs |-> subs, events |-> <<call>>]
        ELSE [subs |-> touch_updated_after_submit(subs, mid, y, m, t),
              events |-> <<call, touch>>
                         \o notify_admins("post_submit_change",
                                          [merchant |-> mid, fio |-> FioOf(mid), y |-> y,
                                           m |-> m, action |-> action, total |-> total],
                                          down)]

\* vs, rs: the visit and adjustment rows as committed when the call is made
maybe_notify_post_submit_change(subs, vs, rs, mid, y, m, action, t, down) ==
    LET status == get_submission_status(subs, mid, y, m)
        call   == Ev("maybe_notify_post_submit_change", 0, TRUE, "audit", <<mid, y, m>>)
        touch  == Ev("touch_updated_after_submit", 0, TRUE, "audit", <<mid, y, m>>)
        total  == compute_overall_total(vs, rs, mid, y, m).total
    IN  IF status = {}
        THEN [subs |-> subs, events |-> <<call>>]
        ELSE [subs |-> touch_updated_after_submit(subs, mid, y, m, t),
              events |-> <<call, touch>>
                         \o notify_admins("post_submit_change",
                                          [merchant |-> mid, fio |-> FioOf(mid), y |-> y,
                                           m |-> m, action |-> action, total |-> total],
                                          down)]

RECURSIVE SortedIds(_)
SortedIds(S) ==
    IF S = {} THEN <<>>
    ELSE LET x == CHOOSE a \in S : \A b \in S : a <= b
         IN  <<x>> \o SortedIds(S \ {x})

TgOf(mid) == (CHOOSE r \in merchants : r.id = mid).telegram_id

\* notify_admins(...), then one send_message per colliding merchant that
\* has a bound handle, each in its own try/except
notify_collision(point, d, mid, others, down) ==
    LET os   == SortedIds(others)
        bound == SelectSeq(os, LAMBDA o : TgOf(o) # NULL)
    IN  notify_admins("collision", [point |-> point, date |-> d, new |-> mid,
                                    others |-> others], down)
        \o [i \in 1..Len(bound) |->
              Ev("send_message", TgOf(bound[i]), TgOf(bound[i]) \notin down,
                 "collision_merchant", <<point, d>>)]

(***************************************************************************)
(* Sessions.                                                               *)
(***************************************************************************)
NoState == "none"
WaitingPoint == "FillFlow:waiting_point"
Calendar == "FillFlow:calendar"
ChoosingKind == "PRFlow:choosing_kind"
WaitingAmount == "PRFlow:waiting_amount"
WaitingText == "PRFlow:waiting_text"
WaitingReceipt == "PRFlow:waiting_receipt"

\* FSM data after state.clear(): no key is set ("" and 0 stand for a key
\* that is absent; no point code is empty and no year is 0)
EmptyData == [point_code |-> "", cal_y |-> 0, cal_m |-> 0,
              pr_kind |-> "", pr_amount |-> 0, pr_reimb_id |-> 0,
              fio |-> <<>>, upload_tu |-> ""]

NoMenu == <<>>

NoKey == <<>>

\* no aggregation function has been called
NoCalc == [op |-> "none"]

\* a connection with no transaction in flight
Idle == [pc |-> "idle", user |-> 0, key |-> <<>>, existing |-> 0,
         present0 |-> FALSE, racing |-> FALSE,
         existed |-> FALSE, added |-> FALSE, created |-> FALSE, raised |-> FALSE,
         ok |-> FALSE, alarm |-> FALSE]

\* the record a handler leaves behind
\* (repeat: the handler before it was a toggle too, of the same key)
Did(kind, u, t, slot, day, result, key, existed, added, created, before, events) ==
    [kind |-> kind, user |-> u, at |-> t, slot |-> slot, day |-> day,
     result |-> result, key |-> key, existed |-> existed, added |-> added,
     created |-> created, keysBefore |-> before, events |-> events, rid |-> 0,
     repeat |-> /\ result \in {"added", "removed"}
                /\ last.result \in {"added", "removed"}
                /\ last.key = key]

\* a handler that touches no ledger
Plain(kind, u, t, result, events) ==
    Did(kind, u, t, "", 0, result, NoKey, FALSE, FALSE, FALSE, {}, events)

Answer(u, text) == Ev("answer", u, TRUE, text, <<>>)

\* a handler of the adjustment flow that acted on row rid of scope key
DidAdj(kind, u, t, result, key, rid, events) ==
    [Plain(kind, u, t, result, events) EXCEPT !.key = key, !.rid = rid]

Init ==
    /\ merchants = {[id |-> 1, fio |-> <<"A", "b", " ", "B", "a">>,
                     fio_norm |-> <<"a", "b", " ", "b", "a">>,
                     pass_hash |-> <<"sha256", "6", "3", "8", "4">>,
                     telegram_id |-> 101, tu |-> "tu1"],
                    [id |-> 2, fio |-> <<"B", "a", " ", "A", "b">>,
                     fio_norm |-> <<"b", "a", " ", "a", "b">>,
                     pass_hash |-> <<"sha256", "1", "2", "3", "4">>,
                     telegram_id |-> 102, tu |-> ""]}
    /\ merch_seq = 2
    /\ supplies = {[point_code |-> "2674", supply_date |-> <<2026, 11, 5>>, boxes |-> 7],
                   [point_code |-> "2674", supply_date |-> <<2026, 12, 5>>, boxes |-> 3],
                   [point_code |-> "3001", supply_date |-> <<2026, 11, 6>>, boxes |-> 0]}
    /\ visits = {}
    /\ visit_seq = 0
    /\ submissions = {}
    /\ sub_seq = 0
    /\ now = 0
    /\ fsm = [u \in Handles |-> NoState]
    /\ data = [u \in Handles |-> EmptyData]
    /\ menu = [u \in Handles |-> NoMenu]
    /\ tx = [c \in Conns |-> Idle]
    /\ reimbursements = {}
    /\ reimb_seq = 0
    /\ point_rates = {[point_code |-> "2674", month_key |-> <<2026, 11, 1>>,
                       rate_supply |-> 900, rate_no_supply |-> 500, rate_inventory |-> 450,
                       coffee_enabled |-> TRUE, pay_lt5 |-> FALSE]}
    /\ calc = NoCalc
    /\ last = [kind |-> "init", user |-> 0, at |-> 0, slot |-> "", day |-> 0,
               result |-> "", key |-> NoKey, existed |-> FALSE, added |-> FALSE,
               created |-> FALSE, keysBefore |-> {}, events |-> <<>>, rid |-> 0,
               repeat |-> FALSE]

Ledgers == <<merchants, merch_seq, supplies, visits, visit_seq, submissions, sub_seq>>

Ledgers_but_submissions == <<merchants, merch_seq, supplies, visits, visit_seq, sub_seq>>

\* the adjustment ledger, the rate table and the last aggregation result
Books == <<reimbursements, reimb_seq, point_rates, calc>>

\* render_calendar: without a bound merchant the session is cleared;
\* otherwise the calendar is drawn over the message whose button was pressed
\* (fromMenu: that message was the slot menu, which is thereby gone)
RenderCalendar(u, f, d, fromMenu) ==
    /\ menu' = IF fromMenu THEN [menu EXCEPT ![u] = NoMenu] ELSE menu
    /\ IF get_merch_by_tg_id(u) = NULL
       THEN /\ fsm' = [fsm EXCEPT ![u] = NoState]
            /\ data' = [data EXCEPT ![u] = EmptyData]
       ELSE /\ fsm' = [fsm EXCEPT ![u] = f]
            /\ data' = [data EXCEPT ![u] = d]

\* message "Заполнить сверку"
fill_reconcile_start(u) ==
    /\ now < MaxTime
    /\ now' = now + 1
    /\ IF get_merch_by_tg_id(u) = NULL
       THEN /\ UNCHANGED <<fsm, data, menu>>
            /\ last' = Plain("fill_reconcile_start", u, now', "no_merch", <<Answer(u, "start_first")>>)
       ELSE /\ fsm' = [fsm EXCEPT ![u] = WaitingPoint]
            /\ UNCHANGED <<data, menu>>
            /\ last' = Plain("fill_reconcile_start", u, now', "ok", <<Answer(u, "enter_point")>>)
    /\ UNCHANGED <<Books, Ledgers, tx>>

\* mutant: the calendar opens without the supply check
fill_reconcile_point_unchecked(u, txt) ==
    /\ now < MaxTime
    /\ fsm[u] = WaitingPoint
    /\ now' = now + 1
    /\ LET point == normalize_point_code(txt)
           y == Today[1]
           m == Today[2]
       IN  IF txt = "otmena"
           THEN /\ fsm' = [fsm EXCEPT ![u] = NoState]
                /\ data' = [data EXCEPT ![u] = EmptyData]
                /\ UNCHANGED menu
                /\ last' = Plain("fill_reconcile_point", u, now', "cancelled", <<Answer(u, "cancelled")>>)
           ELSE IF Len(point) < 3
           THEN /\ UNCHANGED <<fsm, data, menu>>
                /\ last' = Plain("fill_reconcile_point", u, now', "too_short", <<Answer(u, "too_short")>>)
           ELSE /\ RenderCalendar(u, Calendar, [data[u] EXCEPT !.point_code = point, !.cal_y = y,
                                                                   !.cal_m = m], FALSE)
                /\ last' = Plain("fill_reconcile_point", u, now', "ok", <<Ev("render", u, TRUE, "", <<>>)>>)
    /\ UNCHANGED <<Books, Ledgers, tx>>

\* any message while the session is in FillFlow.waiting_point
fill_reconcile_point(u, txt) ==
    /\ now < MaxTime
    /\ fsm[u] = WaitingPoint
    /\ now' = now + 1
    /\ LET point == normalize_point_code(txt)
           y == Today[1]
           m == Today[2]
       IN  IF txt = "otmena"
           THEN /\ fsm' = [fsm EXCEPT ![u] = NoState]
                /\ data' = [data EXCEPT ![u] = EmptyData]
                /\ UNCHANGED menu
                /\ last' = Plain("fill_reconcile_point", u, now', "cancelled", <<Answer(u, "cancelled")>>)
           ELSE IF Len(point) < 3
           THEN /\ UNCHANGED <<fsm, data, menu>>
                /\ last' = Plain("fill_reconcile_point", u, now', "too_short", <<Answer(u, "too_short")>>)
           ELSE IF ~point_has_any_supply_in_month(point, y, m)
           THEN /\ UNCHANGED <<fsm, data, menu>>
                /\ last' = Plain("fill_reconcile_point", u, now', "no_supply", <<Answer(u, "no_supply")>>)
           ELSE /\ RenderCalendar(u, Calendar, [data[u] EXCEPT !.point_code = point, !.cal_y = y,
                                                                   !.cal_m = m], FALSE)
                /\ last' = Plain("fill_reconcile_point", u, now', "ok", <<Ev("render", u, TRUE, "", <<>>)>>)
    /\ UNCHANGED <<Books, Ledgers, tx>>

\* mutant: set_state(None) in place of clear(), the data stay
cal_done_keeps_data(u) ==
    /\ now < MaxTime
    /\ now' = now + 1
    /\ fsm' = [fsm EXCEPT ![u] = NoState]
    /\ last' = Plain("cal_done", u, now', "ok", <<Answer(u, "main_menu")>>)
    /\ UNCHANGED <<Books, Ledgers, data, menu, tx>>

\* callback "done"
cal_done(u) ==
    /\ now < MaxTime
    /\ now' = now + 1
    /\ fsm' = [fsm EXCEPT ![u] = NoState]
    /\ data' = [data EXCEPT ![u] = EmptyData]
    /\ last' = Plain("cal_done", u, now', "ok", <<Answer(u, "main_menu")>>)
    /\ UNCHANGED <<Books, Ledgers, menu, tx>>

\* callback "back_point": the state changes, the data stay
cal_back_point(u) ==
    /\ now < MaxTime
    /\ now' = now + 1
    /\ fsm' = [fsm EXCEPT ![u] = WaitingPoint]
    /\ last' = Plain("cal_back_point", u, now', "ok", <<Answer(u, "enter_point")>>)
    /\ UNCHANGED <<Books, Ledgers, data, menu, tx>>

\* mutant: the year stays when the month wraps around
cal_nav_no_rollover(u, direction) ==
    /\ now < MaxTime
    /\ now' = now + 1
    /\ IF data[u].cal_y = 0
       THEN /\ UNCHANGED <<fsm, data, menu>>
            /\ last' = [Plain("cal_nav", u, now', "no_session", <<Answer(u, "")>>)
                            EXCEPT !.slot = direction]
       ELSE LET y == data[u].cal_y
                m == data[u].cal_m
                y2 == y
                m2 == IF direction = "prev" THEN (IF m = 1 THEN 12 ELSE m - 1)
                                            ELSE (IF m = 12 THEN 1 ELSE m + 1)
                Rec(result, events) ==
                    [Plain("cal_nav", u, now', result, events)
                         EXCEPT !.slot = direction, !.key = <<y, m>>]
            IN  IF ~point_has_any_supply_in_month(data[u].point_code, y2, m2)
                THEN /\ UNCHANGED <<fsm, data, menu>>
                     /\ last' = Rec("no_supply", <<Answer(u, "no_supply")>>)
                ELSE /\ RenderCalendar(u, fsm[u], [data[u] EXCEPT !.cal_y = y2, !.cal_m = m2], FALSE)
                     /\ last' = Rec("ok", <<Ev("render", u, TRUE, "", <<>>)>>)
    /\ UNCHANGED <<Books, Ledgers, tx>>

\* callback "nav:prev" / "nav:next" (last.slot: the direction, last.key: the
\* month on display when the button was pressed)
cal_nav(u, direction) ==
    /\ now < MaxTime
    /\ now' = now + 1
    /\ IF data[u].cal_y = 0
       THEN /\ UNCHANGED <<fsm, data, menu>>
            /\ last' = [Plain("cal_nav", u, now', "no_session", <<Answer(u, "")>>)
                            EXCEPT !.slot = direction]
       ELSE LET y == data[u].cal_y
                m == data[u].cal_m
                y2 == IF direction = "prev" THEN (IF m = 1 THEN y - 1 ELSE y)
                                            ELSE (IF m = 12 THEN y + 1 ELSE y)
                m2 == IF direction = "prev" THEN (IF m = 1 THEN 12 ELSE m - 1)
                                            ELSE (IF m = 12 THEN 1 ELSE m + 1)
                Rec(result, events) ==
                    [Plain("cal_nav", u, now', result, events)
                         EXCEPT !.slot = direction, !.key = <<y, m>>]
            IN  IF ~point_has_any_supply_in_month(data[u].point_code, y2, m2)
                THEN /\ UNCHANGED <<fsm, data, menu>>
                     /\ last' = Rec("no_supply", <<Answer(u, "no_supply")>>)
                ELSE /\ RenderCalendar(u, fsm[u], [data[u] EXCEPT !.cal_y = y2, !.cal_m = m2], FALSE)
                     /\ last' = Rec("ok", <<Ev("render", u, TRUE, "", <<>>)>>)
    /\ UNCHANGED <<Books, Ledgers, tx>>

(***************************************************************************)
(* The slot toggle.                                                        *)
(***************************************************************************)
\* mutant: the collision check comes before the audit call
ToggleFollowUp_collision_first(u, mid, point, y, m, day, r, t, down) ==
    LET audit  == maybe_notify_post_submit_change(
                          submissions, r.rows, reimbursements, mid, y, m,
                          <<IF r.existed THEN "removed" ELSE "added", point, <<y, m, day>>>>,
                          t, down)
        others == IF r.added THEN find_collisions(r.rows, point, <<y, m, day>>, mid) ELSE {}
        check  == IF r.added
                  THEN <<Ev("find_collisions", 0, TRUE, "collision", others)>>
                  ELSE <<>>
        alarm  == IF others # {}
                  THEN <<Answer(u, "collision_warning")>>
                       \o notify_collision(point, <<y, m, day>>, mid, others, down)
                  ELSE <<>>
    IN  [rows |-> r.rows,
         subs |-> audit.subs,
         events |-> check \o alarm \o audit.events \o <<Ev("render", u, TRUE, "", <<>>)>>]

\* mutant: the notifications are sent inside the transaction of the toggle,
\* so a send that raises rolls the visit change back
ToggleFollowUp_rollback(u, mid, point, y, m, day, r, t, down) ==
    LET audit  == maybe_notify_post_submit_change(
                          submissions, r.rows, reimbursements, mid, y, m,
                          <<IF r.existed THEN "removed" ELSE "added", point, <<y, m, day>>>>,
                          t, down)
        others == IF r.added THEN find_collisions(r.rows, point, <<y, m, day>>, mid) ELSE {}
        check  == IF r.added
                  THEN <<Ev("find_collisions", 0, TRUE, "collision", others)>>
                  ELSE <<>>
        alarm  == IF others # {}
                  THEN <<Answer(u, "collision_warning")>>
                       \o notify_collision(point, <<y, m, day>>, mid, others, down)
                  ELSE <<>>
        sent   == audit.events \o alarm
    IN  [rows |-> IF \E i \in 1..Len(sent) : ~sent[i].ok THEN visits ELSE r.rows,
         subs |-> audit.subs,
         events |-> audit.events \o check \o alarm \o <<Ev("render", u, TRUE, "", <<>>)>>]

\* what _toggle_slot_and_refresh does after add_or_remove_visit returned r
\* (its rows are committed): the audit call, then (for an addition) the
\* collision check with its notifications, then the re-render
ToggleFollowUp(u, mid, point, y, m, day, r, t, down) ==
    LET audit  == maybe_notify_post_submit_change(
                          submissions, r.rows, reimbursements, mid, y, m,
                          <<IF r.existed THEN "removed" ELSE "added", point, <<y, m, day>>>>,
                          t, down)
        others == IF r.added THEN find_collisions(r.rows, point, <<y, m, day>>, mid) ELSE {}
        check  == IF r.added
                  THEN <<Ev("find_collisions", 0, TRUE, "collision", others)>>
                  ELSE <<>>
        alarm  == IF others # {}
                  THEN <<Answer(u, "collision_warning")>>
                       \o notify_collision(point, <<y, m, day>>, mid, others, down)
                  ELSE <<>>
    IN  [rows |-> r.rows,
         subs |-> audit.subs,
         events |-> audit.events \o check \o alarm \o <<Ev("render", u, TRUE, "", <<>>)>>]

toggle_slot_and_refresh(kind, u, slot, day, down, pre, fromMenu) ==
    LET t == now + 1
        point == data[u].point_code
        y == data[u].cal_y
        m == data[u].cal_m
        mid == get_merch_by_tg_id(u)
        Quit(result, events) ==
            /\ last' = Did(kind, u, t, slot, day, result, NoKey, FALSE, FALSE, FALSE, {}, pre \o events)
            /\ UNCHANGED <<Books, Ledgers, fsm, data, menu>>
    IN  IF point = ""
        THEN Quit("no_session", <<Answer(u, "")>>)
        ELSE IF slot = SLOT_FULL_INVENT /\ ~ValidDate(y, m, day)
        THEN Quit("error", <<>>)
        ELSE IF slot = SLOT_FULL_INVENT /\ ~full_invent_allowed(y, m, day)
        THEN Quit("illegal_slot", <<Answer(u, "full_invent_only_fri_sat")>>)
        ELSE IF mid = NULL
        THEN Quit("no_merch", <<Answer(u, "start_first")>>)
        ELSE IF ~ValidDate(y, m, day)
        THEN Quit("error", <<>>)
        ELSE \E r \in {add_or_remove_visit(visits, visit_seq, mid, point, <<y, m, day>>, slot)} :
             \E f \in {ToggleFollowUp(u, mid, point, y, m, day, r, t, down)} :
                 /\ visits' = f.rows
                 /\ visit_seq' = r.seq
                 /\ submissions' = f.subs
                 /\ RenderCalendar(u, fsm[u], data[u], fromMenu)
                 /\ last' = Did(kind, u, t, slot, day,
                                IF r.existed THEN "removed" ELSE "added",
                                <<mid, point, <<y, m, day>>, slot>>,
                                r.existed, r.added, FALSE, VisitKeys(visits),
                                pre \o <<Ev("add_or_remove_visit", 0, TRUE, "", <<>>)>> \o f.events)
                 /\ UNCHANGED <<Books, merchants, merch_seq, supplies, sub_seq>>

\* callback "cal:<day>"
cal_day_click(u, day, down) ==
    /\ now < MaxTime
    /\ now' = now + 1
    /\ UNCHANGED tx
    /\ IF data[u].point_code = ""
       THEN /\ last' = Plain("cal_day_click", u, now', "no_session", <<Answer(u, "")>>)
            /\ UNCHANGED <<Books, Ledgers, fsm, data, menu>>
       ELSE IF day < 1 \/ day > days_in_month(data[u].cal_y, data[u].cal_m)
       THEN /\ last' = Plain("cal_day_click", u, now', "bad_day", <<Answer(u, "")>>)
            /\ UNCHANGED <<Books, Ledgers, fsm, data, menu>>
       ELSE IF ~is_fri_sat(data[u].cal_y, data[u].cal_m, day)
       THEN toggle_slot_and_refresh("cal_day_click", u, SLOT_DAY, day, down,
                                    <<Answer(u, "ok")>>, FALSE)
       ELSE /\ menu' = [menu EXCEPT ![u] = <<data[u].cal_y, data[u].cal_m, day>>]
            /\ last' = Did("cal_day_click", u, now', "", day, "menu", NoKey,
                           FALSE, FALSE, FALSE, {}, <<Answer(u, "")>>)
            /\ UNCHANGED <<Books, Ledgers, fsm, data>>

\* callback "toggle:<slot>:<day>"
cal_toggle_slot(u, slot, day, down) ==
    /\ now < MaxTime
    /\ now' = now + 1
    /\ UNCHANGED tx
    /\ toggle_slot_and_refresh("cal_toggle_slot", u, slot, day, down,
                               <<Answer(u, "ok")>>, TRUE)

\* callback "slot_cancel": render_calendar reads data["cal_y"], a KeyError
\* when the session holds no data
slot_cancel(u) ==
    /\ now < MaxTime
    /\ now' = now + 1
    /\ IF data[u].cal_y = 0
       THEN /\ last' = Plain("slot_cancel", u, now', "error", <<>>)
            /\ UNCHANGED <<fsm, data, menu>>
       ELSE /\ RenderCalendar(u, fsm[u], data[u], TRUE)
            /\ last' = Plain("slot_cancel", u, now', "ok", <<Ev("render", u, TRUE, "", <<>>)>>)
    /\ UNCHANGED <<Books, Ledgers, tx>>

(***************************************************************************)
(* Submission.                                                             *)
(***************************************************************************)
\* callback "submit:send"
submit_send(u, down) ==
    /\ now < MaxTime
    /\ now' = now + 1
    /\ UNCHANGED tx
    /\ LET mid == get_merch_by_tg_id(u)
           y == data[u].cal_y
           m == data[u].cal_m
       IN  IF y = 0
           THEN /\ last' = Plain("submit_send", u, now', "no_session", <<Answer(u, "")>>)
                /\ UNCHANGED <<Books, Ledgers, fsm, data, menu>>
           ELSE IF mid = NULL
           THEN /\ last' = Plain("submit_send", u, now', "no_merch", <<Answer(u, "start_first")>>)
                /\ UNCHANGED <<Books, Ledgers, fsm, data, menu>>
           ELSE LET r == mark_submitted(submissions, sub_seq, mid, y, m, now')
                IN  IF r.raised
                    THEN /\ last' = Did("submit_send", u, now', "", 0, "error",
                                        <<mid, month_start(y, m)>>, FALSE, FALSE, FALSE, {}, <<>>)
                         /\ sub_seq' = r.seq
                         /\ UNCHANGED <<Books, merchants, merch_seq, supplies, visits, visit_seq, submissions,
                                        fsm, data, menu>>
                    ELSE /\ submissions' = r.rows
                         /\ sub_seq' = r.seq
                         /\ RenderCalendar(u, fsm[u], data[u], FALSE)
                         /\ last' = Did("submit_send", u, now', "", 0,
                                        IF r.created THEN "created" ELSE "exists",
                                        <<mid, month_start(y, m)>>, FALSE, FALSE, r.created, {},
                                        (IF r.created
                                         THEN <<Answer(u, "submitted")>>
                                              \o notify_admins("submitted", <<mid, y, m>>, down)
                                         ELSE <<Answer(u, "already_submitted")>>)
                                        \o <<Ev("render", u, TRUE, "", <<>>)>>)
                         /\ UNCHANGED <<Books, merchants, merch_seq, supplies, visits, visit_seq>>

(***************************************************************************)
(* Notes and reimbursements.                                               *)
(***************************************************************************)
\* str.strip(): the text without its leading and trailing whitespace
Strip(s) ==
    LET idx == {i \in 1..Len(s) : s[i] # " "}
    IN  IF idx = {} THEN <<>>
        ELSE SubSeq(s, CHOOSE i \in idx : \A j \in idx : i <= j,
                       CHOOSE i \in idx : \A j \in idx : j <= i)

DigitValue(c) ==
    CASE c = "0" -> 0 [] c = "1" -> 1 [] c = "2" -> 2 [] c = "3" -> 3 [] c = "4" -> 4
      [] c = "5" -> 5 [] c = "6" -> 6 [] c = "7" -> 7 [] c = "8" -> 8 [] c = "9" -> 9
      [] OTHER -> -1

\* mutant: the digit-count guard lets eight digits through
MatchesAmount_eight_digits(txt) ==
    LET body == IF Len(txt) > 0 /\ txt[1] = "-" THEN Tail(txt) ELSE txt
    IN  /\ Len(body) >= 1 /\ Len(body) <= 8
        /\ \A i \in 1..Len(body) : DigitValue(body[i]) >= 0

\* re.fullmatch(r"-?\d{1,7}", txt)
MatchesAmount(txt) ==
    LET body == IF Len(txt) > 0 /\ txt[1] = "-" THEN Tail(txt) ELSE txt
    IN  /\ Len(body) >= 1 /\ Len(body) <= 7
        /\ \A i \in 1..Len(body) : DigitValue(body[i]) >= 0

RECURSIVE DigitsValue(_)
DigitsValue(ds) ==
    IF ds = <<>> THEN 0
    ELSE 10 * DigitsValue(SubSeq(ds, 1, Len(ds) - 1)) + DigitValue(ds[Len(ds)])

\* int(txt) of a text that matches
ParseInt(txt) ==
    IF txt[1] = "-" THEN 0 - DigitsValue(Tail(txt)) ELSE DigitsValue(txt)

TuOf(mid) == (CHOOSE r \in merchants : r.id = mid).tu

\* SELECT telegram_id FROM tu_admins WHERE tu=:tu; NULL for an empty tu
get_tu_admin_id(tu) ==
    LET rows == {r \in tu_admins : r.tu = tu}
    IN  IF tu = "" \/ rows = {} THEN NULL ELSE (CHOOSE r \in rows : TRUE).telegram_id

\* set_state(FillFlow.calendar), an answer, then render_calendar, which
\* raises KeyError on a session without data
BackToCalendar(kind, u, t, result, events) ==
    IF data[u].cal_y = 0
    THEN /\ fsm' = [fsm EXCEPT ![u] = Calendar]
         /\ UNCHANGED <<data, menu>>
         /\ last' = Plain(kind, u, t, "error", events)
    ELSE /\ RenderCalendar(u, Calendar, data[u], FALSE)
         /\ last' = Plain(kind, u, t, result, events \o <<Ev("render", u, TRUE, "", <<>>)>>)

\* callback "pr:start"
pr_start(u) ==
    /\ now < MaxTime
    /\ now' = now + 1
    /\ fsm' = [fsm EXCEPT ![u] = ChoosingKind]
    /\ last' = Plain("pr_start", u, now', "ok", <<Answer(u, "choose_kind")>>)
    /\ UNCHANGED <<Books, Ledgers, data, menu, tx>>

\* callback "pr:cancel"
pr_cancel(u) ==
    /\ now < MaxTime
    /\ now' = now + 1
    /\ BackToCalendar("pr_cancel", u, now', "ok", <<Answer(u, "ok")>>)
    /\ UNCHANGED <<Books, Ledgers, tx>>

\* callback "pr:kind:<kind>"
pr_kind(u, kind) ==
    /\ now < MaxTime
    /\ now' = now + 1
    /\ IF kind \notin {KIND_NOTE, KIND_REIMB}
       THEN /\ UNCHANGED <<fsm, data>>
            /\ last' = Plain("pr_kind", u, now', "bad_kind", <<Answer(u, "")>>)
       ELSE /\ data' = [data EXCEPT ![u].pr_kind = kind]
            /\ fsm' = [fsm EXCEPT ![u] = WaitingAmount]
            /\ last' = Plain("pr_kind", u, now', "ok", <<Answer(u, "enter_amount")>>)
    /\ UNCHANGED <<Books, Ledgers, menu, tx>>

\* any message while the session is in PRFlow.waiting_amount (last.key: the
\* text as typed)
pr_amount(u, raw) ==
    /\ now < MaxTime
    /\ fsm[u] = WaitingAmount
    /\ now' = now + 1
    /\ \E txt \in {Strip(raw)} :
       IF txt = <<"o", "t", "m", "e", "n", "a">>
       THEN BackToCalendar("pr_amount", u, now', "cancelled", <<Answer(u, "cancelled")>>)
       ELSE IF ~MatchesAmount(txt)
       THEN /\ UNCHANGED <<fsm, data, menu>>
            /\ last' = DidAdj("pr_amount", u, now', "not_a_number", raw, 0,
                              <<Answer(u, "need_integer")>>)
       ELSE /\ data' = [data EXCEPT ![u].pr_amount = ParseInt(txt)]
            /\ fsm' = [fsm EXCEPT ![u] = WaitingText]
            /\ UNCHANGED menu
            /\ last' = DidAdj("pr_amount", u, now', "ok", raw, 0,
                              <<Answer(u, "enter_comment")>>)
    /\ UNCHANGED <<Books, Ledgers, tx>>

\* any message while the session is in PRFlow.waiting_text
pr_text(u, txt, down) ==
    /\ now < MaxTime
    /\ fsm[u] = WaitingText
    /\ now' = now + 1
    /\ UNCHANGED <<Ledgers_but_submissions, point_rates, calc, tx>>
    /\ LET kind   == IF data[u].pr_kind = "" THEN KIND_NOTE ELSE data[u].pr_kind
           amount == data[u].pr_amount
           mid    == get_merch_by_tg_id(u)
           point  == data[u].point_code
           y      == data[u].cal_y
           m      == data[u].cal_m
           Quit   == UNCHANGED <<reimbursements, reimb_seq, submissions>>
       IN  IF txt = "otmena"
           THEN Quit /\ BackToCalendar("pr_text", u, now', "cancelled", <<Answer(u, "cancelled")>>)
           ELSE IF Len(txt) < 3
           THEN /\ Quit
                /\ UNCHANGED <<fsm, data, menu>>
                /\ last' = Plain("pr_text", u, now', "too_short", <<Answer(u, "too_short")>>)
           ELSE IF mid = NULL
           THEN /\ Quit
                /\ fsm' = [fsm EXCEPT ![u] = NoState]
                /\ data' = [data EXCEPT ![u] = EmptyData]
                /\ UNCHANGED menu
                /\ last' = Plain("pr_text", u, now', "no_merch", <<Answer(u, "start_first")>>)
           ELSE IF y = 0
           THEN /\ Quit
                /\ UNCHANGED <<fsm, data, menu>>
                /\ last' = Plain("pr_text", u, now', "error", <<>>)
           ELSE \E ins \in {reimbursements_insert(reimbursements, reimb_seq, mid, point,
                                                   month_start(y, m), amount, txt, kind)} :
                \E audit \in {maybe_notify_post_submit_change(
                                  submissions, visits, ins.rows, mid, y, m,
                                  <<"added", kind, amount, point, <<y, m>>>>, now', down)} :
                /\ reimbursements' = ins.rows
                /\ reimb_seq' = ins.seq
                /\ submissions' = audit.subs
                /\ IF kind = KIND_NOTE
                   THEN /\ RenderCalendar(u, Calendar, data[u], FALSE)
                        /\ last' = DidAdj("pr_text", u, now', "note_added",
                                          <<mid, point, month_start(y, m)>>, ins.id,
                                          <<Ev("insert_reimbursement", 0, TRUE, "", <<>>)>>
                                          \o audit.events
                                          \o <<Answer(u, "note_added"),
                                               Ev("render", u, TRUE, "", <<>>)>>)
                   ELSE /\ fsm' = [fsm EXCEPT ![u] = WaitingReceipt]
                        /\ data' = [data EXCEPT ![u].pr_reimb_id = ins.id]
                        /\ UNCHANGED menu
                        /\ last' = DidAdj("pr_text", u, now', "reimb_added",
                                          <<mid, point, month_start(y, m)>>, ins.id,
                                          <<Ev("insert_reimbursement", 0, TRUE, "", <<>>)>>
                                          \o audit.events
                                          \o <<Answer(u, "upload_receipt")>>)

\* _save_receipt_and_notify_tu, then what both receipt handlers do after it
save_receipt_and_back(kind, u, fid, down) ==
    LET rid   == data[u].pr_reimb_id
        mid   == get_merch_by_tg_id(u)
        tu    == get_tu_admin_id(IF mid = NULL THEN "" ELSE TuOf(mid))
        photo == Ev("send_photo", tu, tu \notin down, "receipt", fid)
        sends == IF tu = NULL THEN <<>>
                 ELSE IF photo.ok THEN <<photo>>
                 ELSE <<photo, Ev("send_document", tu, tu \notin down, "receipt", fid)>>
        scope == {<<r.merchant_id, r.point_code, r.month_key>> :
                     r \in {x \in reimbursements : x.id = rid}}
        key   == IF scope = {} THEN NoKey ELSE CHOOSE k \in scope : TRUE
        Back(result, events) ==
            IF data[u].cal_y # 0
            THEN /\ RenderCalendar(u, Calendar, data[u], FALSE)
                 /\ last' = DidAdj(kind, u, now', result, key, rid,
                                   events \o <<Answer(u, "receipt_accepted"),
                                               Ev("render", u, TRUE, "", <<>>)>>)
            ELSE /\ fsm' = [fsm EXCEPT ![u] = Calendar]
                 /\ UNCHANGED <<data, menu>>
                 /\ last' = DidAdj(kind, u, now', "error", key, rid, events)
    IN  IF rid = 0
        THEN /\ UNCHANGED reimbursements
             /\ Back("not_found", <<Answer(u, "request_not_found")>>)
        ELSE /\ reimbursements' = reimbursements_set_receipt(reimbursements, rid, fid, now')
             /\ IF data[u].cal_y = 0
                THEN /\ UNCHANGED <<fsm, data, menu>>
                     /\ last' = DidAdj(kind, u, now', "error", key, rid,
                                       <<Ev("update_receipt", 0, TRUE, "", <<>>)>>)
                ELSE Back("receipt_saved", <<Ev("update_receipt", 0, TRUE, "", <<>>)>> \o sends)

\* a photo while the session is in PRFlow.waiting_receipt
pr_receipt_photo(u, fid, down) ==
    /\ now < MaxTime
    /\ fsm[u] = WaitingReceipt
    /\ now' = now + 1
    /\ save_receipt_and_back("pr_receipt_photo", u, fid, down)
    /\ UNCHANGED <<Ledgers, reimb_seq, point_rates, calc, tx>>

\* a document while the session is in PRFlow.waiting_receipt
pr_receipt_document(u, fid, down) ==
    /\ now < MaxTime
    /\ fsm[u] = WaitingReceipt
    /\ now' = now + 1
    /\ save_receipt_and_back("pr_receipt_document", u, fid, down)
    /\ UNCHANGED <<Ledgers, reimb_seq, point_rates, calc, tx>>

\* the message "Отмена" or "Заново", in any state
cancel_or_restart(u, txt) ==
    /\ now < MaxTime
    /\ now' = now + 1
    /\ fsm' = [fsm EXCEPT ![u] = NoState]
    /\ data' = [data EXCEPT ![u] = EmptyData]
    /\ IF fsm[u] = WaitingReceipt /\ txt = "Otmena"
       THEN LET rid == data[u].pr_reimb_id
                scope == {<<r.merchant_id, r.point_code, r.month_key>> :
                             r \in {x \in reimbursements : x.id = rid}}
                key   == IF scope = {} THEN NoKey ELSE CHOOSE k \in scope : TRUE
            IN  /\ reimbursements' = IF rid # 0
                                     THEN reimbursements_delete_draft(reimbursements, rid)
                                     ELSE reimbursements
                /\ last' = DidAdj("cancel_or_restart", u, now', "draft_cancelled", key, rid,
                                  (IF rid # 0 THEN <<Ev("delete_draft", 0, TRUE, "", <<>>)>>
                                   ELSE <<>>)
                                  \o <<Answer(u, "reimbursement_not_saved")>>)
       ELSE /\ UNCHANGED reimbursements
            /\ last' = Plain("cancel_or_restart", u, now', "cleared",
                             <<Answer(u, IF txt = "Otmena" THEN "cancelled" ELSE "restart")>>)
    /\ UNCHANGED <<Ledgers, reimb_seq, point_rates, calc, menu, tx>>

Next ==
    \/ \E u \in Handles : fill_reconcile_start(u)
    \/ \E u \in Handles, txt \in PointInputs : fill_reconcile_point(u, txt)
    \/ \E u \in Handles : cal_done(u)
    \/ \E u \in Handles : cal_back_point(u)
    \/ \E u \in Handles, dir \in {"prev", "next"} : cal_nav(u, dir)
    \/ \E u \in Handles, day \in DayInputs, down \in DownSets : cal_day_click(u, day, down)
    \/ \E u \in Handles, slot \in SlotInputs, day \in DayInputs, down \in DownSets :
           cal_toggle_slot(u, slot, day, down)
    \/ \E u \in Handles : slot_cancel(u)
    \/ \E u \in Handles, down \in DownSets : submit_send(u, down)

Spec == Init /\ [][Next]_vars

\* every handler of the reconciliation and adjustment flows, one at a time,
\* with one operator at work; what the other merchant did is in the
\* datastore the run starts from
NextAdj ==
    \/ \E u \in AdjHandles : fill_reconcile_start(u)
    \/ \E u \in AdjHandles, txt \in PointInputs : fill_reconcile_point(u, txt)
    \/ \E u \in AdjHandles : cal_done(u)
    \/ \E u \in AdjHandles : cal_back_point(u)
    \/ \E u \in AdjHandles, dir \in {"prev", "next"} : cal_nav(u, dir)
    \/ \E u \in AdjHandles, day \in DayInputs, down \in DownSets : cal_day_click(u, day, down)
    \/ \E u \in AdjHandles, slot \in SlotInputs, day \in DayInputs, down \in DownSets :
           cal_toggle_slot(u, slot, day, down)
    \/ \E u \in AdjHandles : slot_cancel(u)
    \/ \E u \in AdjHandles, down \in DownSets : submit_send(u, down)
    \/ \E u \in AdjHandles : pr_start(u)
    \/ \E u \in AdjHandles : pr_cancel(u)
    \/ \E u \in AdjHandles, kind \in KindInputs : pr_kind(u, kind)
    \/ \E u \in AdjHandles, txt \in AmountInputs : pr_amount(u, txt)
    \/ \E u \in AdjHandles, txt \in CommentInputs, down \in DownSets : pr_text(u, txt, down)
    \/ \E u \in AdjHandles, fid \in FileInputs, down \in DownSets :
           pr_receipt_photo(u, fid, down)
    \/ \E u \in AdjHandles, fid \in FileInputs, down \in DownSets :
           pr_receipt_document(u, fid, down)
    \/ \E u \in AdjHandles, txt \in CancelInputs : cancel_or_restart(u, txt)

\* the process restarted over the datastore an earlier run left behind:
\* the sessions are empty (MemoryStorage), both merchants may have
\* submitted November 2026 (times before the restart are negative)
InitAdj ==
    /\ merchants = {[id |-> 1, fio |-> <<"A", "b", " ", "B", "a">>,
                     fio_norm |-> <<"a", "b", " ", "b", "a">>,
                     pass_hash |-> <<"sha256", "6", "3", "8", "4">>,
                     telegram_id |-> 101, tu |-> "tu1"],
                    [id |-> 2, fio |-> <<"B", "a", " ", "A", "b">>,
                     fio_norm |-> <<"b", "a", " ", "a", "b">>,
                     pass_hash |-> <<"sha256", "1", "2", "3", "4">>,
                     telegram_id |-> 102, tu |-> ""]}
    /\ merch_seq = 2
    /\ supplies = {[point_code |-> "2674", supply_date |-> <<2026, 11, 5>>, boxes |-> 7],
                   [point_code |-> "2674", supply_date |-> <<2026, 12, 5>>, boxes |-> 3],
                   [point_code |-> "3001", supply_date |-> <<2026, 11, 6>>, boxes |-> 0]}
    /\ visits = {}
    /\ visit_seq = 0
    /\ submissions \in {{}, {[id |-> 1, merchant_id |-> 1, month_key |-> <<2026, 11, 1>>,
                               submitted_at |-> -2, updated_after_submit_at |-> NULL],
                              [id |-> 2, merchant_id |-> 2, month_key |-> <<2026, 11, 1>>,
                               submitted_at |-> -1, updated_after_submit_at |-> NULL]}}
    /\ sub_seq = Cardinality(submissions)
    /\ reimbursements = {}
    /\ reimb_seq = 0
    /\ point_rates = {[point_code |-> "2674", month_key |-> <<2026, 11, 1>>,
                       rate_supply |-> 900, rate_no_supply |-> 500, rate_inventory |-> 450,
                       coffee_enabled |-> TRUE, pay_lt5 |-> FALSE]}
    /\ calc = NoCalc
    /\ now = 0
    /\ fsm = [u \in Handles |-> NoState]
    /\ data = [u \in Handles |-> EmptyData]
    /\ menu = [u \in Handles |-> NoMenu]
    /\ tx = [c \in Conns |-> Idle]
    /\ last = [kind |-> "init", user |-> 0, at |-> 0, slot |-> "", day |-> 0,
               result |-> "", key |-> NoKey, existed |-> FALSE, added |-> FALSE,
               created |-> FALSE, keysBefore |-> {}, events |-> <<>>, rid |-> 0,
               repeat |-> FALSE]

SpecAdj == InitAdj /\ [][NextAdj]_vars

(***************************************************************************)
(* SpecPay: the payroll aggregation applied to a datastore.  The run       *)
(* starts from rows that uploads, toggles and the adjustment flow can have *)
(* left behind and applies one function of the aggregation to it.          *)
(***************************************************************************)
\* the largest box count of the supply row of 2674 on 2026-11-05
MaxBoxes == 5
\* boxes = int(float(val)) of an uploaded cell: any integer, also negative
BoxInputs == -1..MaxBoxes
\* the points and months the aggregation is asked about; nobody visited
\* point 4000
PayPoints == {"2674", "3001", "4000"}
PayMonths == {<<2026, 11>>, <<2026, 12>>}
PayMerchants == {1, 2}
\* the most rows a drawn visit ledger and a drawn adjustment ledger hold
MaxVisitRows == 3
MaxReimbRows == 2

\* visit rows the toggles can have left: a DAY visit on the supply date of
\* 2674, both slots on a Friday without a supply record, a DAY visit at
\* 3001 on a date with zero boxes, a visit in December, a visit of the
\* other merchant
VisitPool ==
    {[id |-> 1, merchant_id |-> 1, point_code |-> "2674", visit_date |-> <<2026, 11, 5>>,
      slot |-> SLOT_DAY],
     [id |-> 2, merchant_id |-> 1, point_code |-> "2674", visit_date |-> <<2026, 11, 6>>,
      slot |-> SLOT_DAY],
     [id |-> 3, merchant_id |-> 1, point_code |-> "2674", visit_date |-> <<2026, 11, 6>>,
      slot |-> SLOT_FULL_INVENT],
     [id |-> 4, merchant_id |-> 1, point_code |-> "3001", visit_date |-> <<2026, 11, 6>>,
      slot |-> SLOT_DAY],
     [id |-> 5, merchant_id |-> 1, point_code |-> "2674", visit_date |-> <<2026, 12, 5>>,
      slot |-> SLOT_FULL_INVENT],
     [id |-> 6, merchant_id |-> 2, point_code |-> "2674", visit_date |-> <<2026, 11, 5>>,
      slot |-> SLOT_DAY]}

\* adjustment rows the adjustment flow can have left: a deduction, a
\* reimbursement awaiting its receipt and one with its receipt at 2674, a
\* reimbursement at a point without visits, a note of the other merchant
ReimbPool ==
    {[id |-> 1, merchant_id |-> 1, point_code |-> "2674", month_key |-> <<2026, 11, 1>>,
      amount |-> -200, note |-> "minus", kind |-> KIND_NOTE,
      receipt_file_id |-> NoText, receipt_uploaded_at |-> NULL],
     [id |-> 2, merchant_id |-> 1, point_code |-> "2674", month_key |-> <<2026, 11, 1>>,
      amount |-> 350, note |-> "taxi", kind |-> KIND_REIMB,
      receipt_file_id |-> NoText, receipt_uploaded_at |-> NULL],
     [id |-> 3, merchant_id |-> 1, point_code |-> "2674", month_key |-> <<2026, 11, 1>>,
      amount |-> 90, note |-> "tape", kind |-> KIND_REIMB,
      receipt_file_id |-> <<"f0">>, receipt_uploaded_at |-> -1],
     [id |-> 4, merchant_id |-> 1, point_code |-> "4000", month_key |-> <<2026, 11, 1>>,
      amount |-> 120, note |-> "fuel", kind |-> KIND_REIMB,
      receipt_file_id |-> NoText, receipt_uploaded_at |-> NULL],
     [id |-> 5, merchant_id |-> 2, point_code |-> "2674", month_key |-> <<2026, 11, 1>>,
      amount |-> 70, note |-> "bonus", kind |-> KIND_NOTE,
      receipt_file_id |-> NoText, receipt_uploaded_at |-> NULL]}

\* rate tables the rates upload can have left: none; a row of (2674,
\* November) with the coffee bonus; one with pay_lt5 instead; rows of
\* another month and of another point only
RatePool ==
    {{},
     {[point_code |-> "2674", month_key |-> <<2026, 11, 1>>,
       rate_supply |-> 900, rate_no_supply |-> 500, rate_inventory |-> 450,
       coffee_enabled |-> TRUE, pay_lt5 |-> FALSE]},
     {[point_code |-> "2674", month_key |-> <<2026, 11, 1>>,
       rate_supply |-> 900, rate_no_supply |-> 500, rate_inventory |-> 450,
       coffee_enabled |-> FALSE, pay_lt5 |-> TRUE]},
     {[point_code |-> "2674", month_key |-> <<2026, 12, 1>>,
       rate_supply |-> 700, rate_no_supply |-> 300, rate_inventory |-> 350,
       coffee_enabled |-> TRUE, pay_lt5 |-> TRUE],
      [point_code |-> "3001", month_key |-> <<2026, 11, 1>>,
       rate_supply |-> 850, rate_no_supply |-> 450, rate_inventory |-> 420,
       coffee_enabled |-> TRUE, pay_lt5 |-> TRUE]}}

InitPay ==
    /\ merchants = {[id |-> 1, fio |-> <<"A", "b", " ", "B", "a">>,
                     fio_norm |-> <<"a", "b", " ", "b", "a">>,
                     pass_hash |-> <<"sha256", "6", "3", "8", "4">>,
                     telegram_id |-> 101, tu |-> "tu1"],
                    [id |-> 2, fio |-> <<"B", "a", " ", "A", "b">>,
                     fio_norm |-> <<"b", "a", " ", "a", "b">>,
                     pass_hash |-> <<"sha256", "1", "2", "3", "4">>,
                     telegram_id |-> 102, tu |-> ""]}
    /\ merch_seq = 2
    /\ \E b \in BoxInputs :
           supplies = {[point_code |-> "2674", supply_date |-> <<2026, 11, 5>>, boxes |-> b],
                       [point_code |-> "2674", supply_date |-> <<2026, 12, 5>>, boxes |-> 3],
                       [point_code |-> "3001", supply_date |-> <<2026, 11, 6>>, boxes |-> 0]}
    /\ visits \in {vs \in SUBSET VisitPool : Cardinality(vs) <= MaxVisitRows}
    /\ visit_seq = Cardinality(VisitPool)
    /\ submissions = {}
    /\ sub_seq = 0
    /\ reimbursements \in {rs \in SUBSET ReimbPool : Cardinality(rs) <= MaxReimbRows}
    /\ reimb_seq = Cardinality(ReimbPool)
    /\ point_rates \in RatePool
    /\ calc = NoCalc
    /\ now = 0
    /\ fsm = [u \in Handles |-> NoState]
    /\ data = [u \in Handles |-> EmptyData]
    /\ menu = [u \in Handles |-> NoMenu]
    /\ tx = [c \in Conns |-> Idle]
    /\ last = [kind |-> "init", user |-> 0, at |-> 0, slot |-> "", day |-> 0,
               result |-> "", key |-> NoKey, existed |-> FALSE, added |-> FALSE,
               created |-> FALSE, keysBefore |-> {}, events |-> <<>>, rid |-> 0,
               repeat |-> FALSE]

\* everything but the adjustment ledger and the result
PayFrame == <<merchants, merch_seq, supplies, visits, visit_seq, submissions, sub_seq, reimb_seq,
              point_rates, now, fsm, data, menu, tx, last>>

\* compute_point_total(mid, point, y, m), with the missing-receipt answer
\* of get_reimb_comments for the same scope
apply_compute_point_total(mid, point, y, m) ==
    /\ calc.op = "none"
    /\ calc' = [op |-> "compute_point_total", mid |-> mid, point |-> point, y |-> y, m |-> m,
                res |-> compute_point_total(visits, reimbursements, mid, point, y, m),
                comments_missing |->
                    get_reimb_comments_missing(reimbursements, mid, point, y, m)]
    /\ UNCHANGED <<PayFrame, reimbursements>>

\* compute_overall_total(mid, y, m)
apply_compute_overall_total(mid, y, m) ==
    /\ calc.op = "none"
    /\ calc' = [op |-> "compute_overall_total", mid |-> mid, y |-> y, m |-> m,
                res |-> compute_overall_total(visits, reimbursements, mid, y, m)]
    /\ UNCHANGED <<PayFrame, reimbursements>>

\* get_point_rates(point, y, m)
apply_get_point_rates(point, y, m) ==
    /\ calc.op = "none"
    /\ calc' = [op |-> "get_point_rates", point |-> point, y |-> y, m |-> m,
                res |-> get_point_rates(point, y, m)]
    /\ UNCHANGED <<PayFrame, reimbursements>>

\* effective_has_supply(boxes, pay_lt5)
apply_effective_has_supply(boxes, pay_lt5) ==
    /\ calc.op = "none"
    /\ calc' = [op |-> "effective_has_supply", boxes |-> boxes, pay_lt5 |-> pay_lt5,
                res |-> effective_has_supply(boxes, pay_lt5)]
    /\ UNCHANGED <<PayFrame, reimbursements>>

\* the UPDATE of _save_receipt_and_notify_tu on row id, between two calls
\* of compute_point_total for the scope of the row
apply_set_receipt(id, fid) ==
    /\ calc.op = "none"
    /\ \E r \in reimbursements :
           /\ r.id = id
           /\ \E after \in {reimbursements_set_receipt(reimbursements, id, fid, now + 1)} :
                  /\ reimbursements' = after
                  /\ calc' = [op |-> "set_receipt", id |-> id,
                              mid |-> r.merchant_id, point |-> r.point_code,
                              y |-> r.month_key[1], m |-> r.month_key[2],
                              before |-> compute_point_total(visits, reimbursements,
                                             r.merchant_id, r.point_code,
                                             r.month_key[1], r.month_key[2]),
                              res |-> compute_point_total(visits, after,
                                             r.merchant_id, r.point_code,
                                             r.month_key[1], r.month_key[2])]
    /\ UNCHANGED PayFrame

NextPay ==
    \/ \E mid \in PayMerchants, point \in PayPoints, ym \in PayMonths :
           apply_compute_point_total(mid, point, ym[1], ym[2])
    \/ \E mid \in PayMerchants, ym \in PayMonths :
           apply_compute_overall_total(mid, ym[1], ym[2])
    \/ \E point \in PayPoints, ym \in PayMonths : apply_get_point_rates(point, ym[1], ym[2])
    \/ \E boxes \in BoxInputs, pay_lt5 \in BOOLEAN :
           apply_effective_has_supply(boxes, pay_lt5)
    \/ \E id \in 1..Cardinality(ReimbPool), fid \in FileInputs : apply_set_receipt(id, fid)

SpecPay == InitPay /\ [][NextPay]_vars

(***************************************************************************)
(* SpecConc: two connections.  A handler that reaches its transaction runs *)
(* the SELECT in one step and the write, the commit and the rest of the    *)
(* handler in a later one; statements of the other connection may fall in  *)
(* between.  Under READ COMMITTED a write that meets an uncommitted write  *)
(* of the same row waits for that commit and then acts on what was         *)
(* committed, which is what running write and commit as one step gives.    *)
(* Inside one process every database function runs to its end without an   *)
(* await, so the two connections are those of two processes of the webhook *)
(* application on the one database (engine is created per process).        *)
(***************************************************************************)
Free(c) == tx[c].pc \in {"idle", "toggle_done", "submit_done"}

\* _toggle_slot_and_refresh up to and including the SELECT of
\* add_or_remove_visit
tx_toggle_begin(c, u, slot, day) ==
    LET point == data[u].point_code
        y == data[u].cal_y
        m == data[u].cal_m
        mid == get_merch_by_tg_id(u)
        key == <<mid, point, <<y, m, day>>, slot>>
        existing == visits_select_id(visits, mid, point, <<y, m, day>>, slot)
        Rival(c2) == c2 # c /\ tx[c2].pc = "toggle_selected" /\ tx[c2].key = key
    IN  /\ now < MaxTime
        /\ Free(c)
        /\ point # ""
        /\ ValidDate(y, m, day)
        /\ slot = SLOT_FULL_INVENT => full_invent_allowed(y, m, day)
        /\ mid # NULL
        /\ now' = now + 1
        /\ tx' = [c2 \in Conns |->
                    IF c2 = c
                    THEN [Idle EXCEPT !.pc = "toggle_selected", !.user = u, !.key = key,
                                      !.existing = existing,
                                      !.present0 = (key \in VisitKeys(visits)),
                                      !.racing = (\E c3 \in Conns : Rival(c3))]
                    ELSE IF Rival(c2) THEN [tx[c2] EXCEPT !.racing = TRUE]
                    ELSE tx[c2]]
        /\ UNCHANGED <<Books, Ledgers, fsm, data, menu, last>>

\* the DELETE or INSERT of add_or_remove_visit, its commit, and the rest of
\* _toggle_slot_and_refresh
tx_toggle_write(c, down) ==
    /\ now < MaxTime
    /\ tx[c].pc = "toggle_selected"
    /\ now' = now + 1
    /\ LET u == tx[c].user
           k == tx[c].key
           r == add_or_remove_visit_write(visits, visit_seq, tx[c].existing,
                                          k[1], k[2], k[3], k[4])
           f == ToggleFollowUp(u, k[1], k[2], k[3][1], k[3][2], k[3][3], r, now', down)
       IN  /\ visits' = f.rows
           /\ visit_seq' = r.seq
           /\ submissions' = f.subs
           /\ RenderCalendar(u, fsm[u], data[u], FALSE)
           /\ tx' = [tx EXCEPT ![c].pc = "toggle_done", ![c].existed = r.existed,
                               ![c].added = r.added]
           /\ last' = Did("cal_toggle_slot", u, now', k[4], k[3][3],
                          IF r.existed THEN "removed" ELSE "added", k,
                          r.existed, r.added, FALSE, VisitKeys(visits),
                          <<Ev("add_or_remove_visit", 0, TRUE, "", <<>>)>> \o f.events)
    /\ UNCHANGED <<Books, merchants, merch_seq, supplies, sub_seq>>

\* submit_send up to and including the SELECT of mark_submitted
tx_submit_begin(c, u) ==
    LET y == data[u].cal_y
        m == data[u].cal_m
        mid == get_merch_by_tg_id(u)
        key == <<mid, month_start(y, m)>>
        Rival(c2) == c2 # c /\ tx[c2].pc = "submit_selected" /\ tx[c2].key = key
    IN  /\ now < MaxTime
        /\ Free(c)
        /\ y # 0
        /\ mid # NULL
        /\ now' = now + 1
        /\ tx' = [c2 \in Conns |->
                    IF c2 = c
                    THEN [Idle EXCEPT !.pc = "submit_selected", !.user = u, !.key = key,
                                      !.existing = submissions_select_id(submissions, mid, key[2]),
                                      !.present0 = (\E r \in submissions : SubKey(r) = key),
                                      !.racing = (\E c3 \in Conns : Rival(c3))]
                    ELSE IF Rival(c2) THEN [tx[c2] EXCEPT !.racing = TRUE]
                    ELSE tx[c2]]
        /\ UNCHANGED <<Books, Ledgers, fsm, data, menu, last>>

\* the INSERT of mark_submitted, its commit or the IntegrityError that ends
\* the handler, and the rest of submit_send
tx_submit_write(c, down) ==
    /\ now < MaxTime
    /\ tx[c].pc = "submit_selected"
    /\ now' = now + 1
    /\ LET u == tx[c].user
           k == tx[c].key
           r == mark_submitted_write(submissions, sub_seq, tx[c].existing, k[1], k[2], now')
       IN  /\ submissions' = r.rows
           /\ sub_seq' = r.seq
           /\ tx' = [tx EXCEPT ![c].pc = "submit_done", ![c].created = r.created,
                               ![c].raised = r.raised]
           /\ IF r.raised
              THEN /\ UNCHANGED <<fsm, data, menu>>
                   /\ last' = Did("submit_send", u, now', "", 0, "error", k,
                                  FALSE, FALSE, FALSE, {}, <<>>)
              ELSE /\ RenderCalendar(u, fsm[u], data[u], FALSE)
                   /\ last' = Did("submit_send", u, now', "", 0,
                                  IF r.created THEN "created" ELSE "exists", k,
                                  FALSE, FALSE, r.created, {},
                                  (IF r.created
                                   THEN <<Answer(u, "submitted")>>
                                        \o notify_admins("submitted", <<k[1], k[2][1], k[2][2]>>, down)
                                   ELSE <<Answer(u, "already_submitted")>>)
                                  \o <<Ev("render", u, TRUE, "", <<>>)>>)
    /\ UNCHANGED <<Books, merchants, merch_seq, supplies, visits, visit_seq>>

NextConc ==
    \/ \E u \in Handles : fill_reconcile_start(u)
    \/ \E u \in Handles, txt \in PointInputs : fill_reconcile_point(u, txt)
    \/ \E u \in Handles, dir \in {"prev", "next"} : cal_nav(u, dir)
    \/ \E c \in Conns, u \in Handles, slot \in SlotInputs, day \in DayInputs :
           tx_toggle_begin(c, u, slot, day)
    \/ \E c \in Conns, down \in DownSets : tx_toggle_write(c, down)
    \/ \E c \in Conns, u \in Handles : tx_submit_begin(c, u)
    \/ \E c \in Conns, down \in DownSets : tx_submit_write(c, down)

SpecConc == Init /\ [][NextConc]_vars

(***************************************************************************)
(* The claims.                                                             *)
(***************************************************************************)
\* the record of a handler that went through add_or_remove_visit
IsToggle(l) == l.result \in {"added", "removed"}

RowsOfKey(vs, k) == {r \in vs : VisitKey(r) = k}

\* C1: a toggle call deletes the row and reports removed if the row
\* existed, and otherwise inserts it and reports added: exactly one flag is
\* true, and afterwards the row exists iff it did not exist before.
C1_ToggleFlipsRow ==
    [][(last'.at # last.at /\ IsToggle(last')) =>
         LET k   == last'.key
             was == k \in VisitKeys(visits)
         IN  /\ last'.existed # last'.added
             /\ last'.existed = was
             /\ last'.added = ~was
             /\ (k \in VisitKeys(visits')) = ~was
             /\ Cardinality(RowsOfKey(visits', k)) = (IF was THEN 0 ELSE 1)]_vars

\* C1 witness: a toggle found its row and removed it.
C1_Witness == last.result = "removed" /\ last.existed /\ last.key \notin VisitKeys(visits)

\* C2: two toggles of the same key in a row return complementary results
\* and leave the visit ledger as it was before the first.
C2_TwoTogglesRestore ==
    [][(last'.at # last.at /\ IsToggle(last) /\ IsToggle(last') /\ last'.key = last.key) =>
         /\ last'.added = last.existed
         /\ last'.existed = last.added
         /\ VisitKeys(visits') = last.keysBefore]_vars

\* C2 witness: a key was toggled twice in a row, added and then removed.
C2_Witness == last.repeat /\ last.existed

\* C3: two concurrent toggles of one key end as one of their two sequential
\* orders would: one reports added, the other removed, the row's presence
\* ends as it started, and the key has at most one row.
C3_ConcurrentTogglesSerial ==
    \A c1 \in Conns, c2 \in Conns :
        (/\ c1 # c2
         /\ tx[c1].pc = "toggle_done" /\ tx[c2].pc = "toggle_done"
         /\ tx[c1].key = tx[c2].key
         /\ tx[c1].racing /\ tx[c2].racing
         /\ tx[c1].present0 = tx[c2].present0)
        => /\ tx[c1].added # tx[c2].added
           /\ tx[c1].existed # tx[c2].existed
           /\ (tx[c1].key \in VisitKeys(visits)) = tx[c1].present0
           /\ Cardinality(RowsOfKey(visits, tx[c1].key)) <= 1

\* C4: the visit ledger holds at most one row per (merchant, point, date,
\* slot) and the submission ledger at most one row per (merchant, month),
\* however the statements of toggles and submits interleave.
C4_Uniqueness ==
    /\ \A r1 \in visits, r2 \in visits : VisitKey(r1) = VisitKey(r2) => r1 = r2
    /\ \A r1 \in submissions, r2 \in submissions : SubKey(r1) = SubKey(r2) => r1 = r2

\* C4 witness: two racing toggles both ran the INSERT of one key, and two
\* racing submits both ran the INSERT of one (merchant, month), or one of
\* the two races has ended.
C4_Witness ==
    \E c1 \in Conns, c2 \in Conns :
        /\ c1 # c2
        /\ tx[c1].key = tx[c2].key
        /\ tx[c1].racing /\ tx[c2].racing
        /\ \/ tx[c1].pc = "toggle_done" /\ tx[c2].pc = "toggle_done"
              /\ tx[c1].added /\ tx[c2].added
              /\ Cardinality(RowsOfKey(visits, tx[c1].key)) = 1
           \/ tx[c1].pc = "submit_done" /\ tx[c2].pc = "submit_done"
              /\ tx[c1].created /\ tx[c2].raised
              /\ Cardinality({r \in submissions : SubKey(r) = tx[c1].key}) = 1

Idx(e, op) == {i \in 1..Len(e) : e[i].op = op}

Sends(e) == Idx(e, "send_message")

\* C5: a FULL_INVENT toggle on a day that is no Friday or Saturday is
\* rejected with the illegal-slot message and changes no ledger, touches no
\* submission and notifies nobody; on a Friday or Saturday it goes through.
C5_FullInventWeekday ==
    [][(/\ last'.at # last.at
        /\ last'.kind = "cal_toggle_slot"
        /\ last'.slot = SLOT_FULL_INVENT
        /\ data[last'.user].point_code # ""
        /\ ValidDate(data[last'.user].cal_y, data[last'.user].cal_m, last'.day)) =>
         LET u  == last'.user
             wd == weekday_of(data[u].cal_y, data[u].cal_m, last'.day)
             e  == last'.events
         IN  IF wd \notin {4, 5}
             THEN /\ last'.result = "illegal_slot"
                  /\ \E i \in 1..Len(e) : e[i] = Answer(u, "full_invent_only_fri_sat")
                  /\ UNCHANGED <<visits, visit_seq, submissions, sub_seq>>
                  /\ \A i \in 1..Len(e) : e[i].op = "answer"
             ELSE get_merch_by_tg_id(u) # NULL => IsToggle(last')]_vars

\* C5 witness: a FULL_INVENT toggle has just been rejected, after one on a
\* Friday or Saturday went through.
C5_Witness ==
    /\ last.result = "illegal_slot"
    /\ \E r \in visits : r.slot = SLOT_FULL_INVENT

\* C6: every FULL_INVENT row of the visit ledger lies on a Friday or a
\* Saturday.
C6_FullInventOnFriSat ==
    \A r \in visits :
        r.slot = SLOT_FULL_INVENT
        => weekday_of(r.visit_date[1], r.visit_date[2], r.visit_date[3]) \in {4, 5}

\* C6 witness: the FULL_INVENT button of a slot menu opened in one month
\* was pressed after the session had moved to another month.
C6_Witness ==
    \E u \in Handles :
        /\ last.user = u /\ last.kind = "cal_toggle_slot" /\ last.slot = SLOT_FULL_INVENT
        /\ last.result = "illegal_slot"
        /\ menu[u] # NoMenu
        /\ menu[u][3] = last.day
        /\ <<menu[u][1], menu[u][2]>> # <<data[u].cal_y, data[u].cal_m>>

\* C7 as stated: after a successful toggle the collision check comes
\* first, then the submission-audit call, then the re-render.
C7_CollisionThenAuditThenRender ==
    IsToggle(last) =>
        LET e == last.events
        IN  /\ \A i \in Idx(e, "find_collisions"),
                  j \in Idx(e, "maybe_notify_post_submit_change") : i < j
            /\ \A j \in Idx(e, "maybe_notify_post_submit_change"),
                  k \in Idx(e, "render") : j < k

\* C7 amended: after a successful toggle the submission-audit call comes
\* first (with the touch and the admin notification when the month is
\* submitted), then, for an addition only, the collision check with its
\* notifications, then the re-render, which is the last thing done.
C7_AuditThenCollisionThenRender ==
    IsToggle(last) =>
        LET e == last.events
            audit == Idx(e, "maybe_notify_post_submit_change")
                     \cup Idx(e, "touch_updated_after_submit")
                     \cup {i \in Sends(e) : e[i].topic = "post_submit_change"}
            coll  == Idx(e, "find_collisions")
                     \cup {i \in Sends(e) : e[i].topic \in {"collision", "collision_merchant"}}
        IN  /\ Cardinality(Idx(e, "add_or_remove_visit")) = 1
            /\ Cardinality(Idx(e, "maybe_notify_post_submit_change")) = 1
            /\ Cardinality(Idx(e, "find_collisions")) = (IF last.added THEN 1 ELSE 0)
            /\ Idx(e, "render") = {Len(e)}
            /\ \A h \in Idx(e, "add_or_remove_visit"), i \in audit : h < i
            /\ \A i \in audit, j \in coll : i < j
            /\ \A j \in coll : j < Len(e)
            /\ \A i \in Idx(e, "maybe_notify_post_submit_change"), j \in audit : i <= j
            /\ \A i \in Idx(e, "find_collisions"), j \in coll : i <= j

\* C7 witness: an addition in a submitted month, with the audit touch and
\* the collision check both made.
C7_Witness ==
    /\ last.added
    /\ Idx(last.events, "touch_updated_after_submit") # {}
    /\ Idx(last.events, "find_collisions") # {}

\* the other merchants with a visit, of any slot, at the point and date of key k
OthersAt(vs, k) ==
    {r.merchant_id : r \in {v \in vs : /\ v.point_code = k[2]
                                       /\ v.visit_date = k[3]
                                       /\ v.merchant_id # k[1]}}

\* C8: a toggle raises a collision notification exactly when it added a
\* row while another merchant had a visit at the same point and date; the
\* notification names exactly those merchants and goes, besides the
\* administrators, to exactly their handles.
C8_CollisionExactlyOnDoubleBooking ==
    IsToggle(last) =>
        LET e      == last.events
            others == OthersAt(visits, last.key)
            toAdm  == {i \in Sends(e) : e[i].topic = "collision"}
            toMer  == {i \in Sends(e) : e[i].topic = "collision_merchant"}
        IN  /\ (toAdm # {}) = (last.added /\ others # {})
            /\ \A i \in toAdm : e[i].arg.others = others /\ e[i].arg.new = last.key[1]
                                /\ e[i].arg.point = last.key[2] /\ e[i].arg.date = last.key[3]
            /\ {e[i].to : i \in toAdm} = (IF toAdm = {} THEN {}
                                          ELSE {ADMIN_IDS[i] : i \in 1..Len(ADMIN_IDS)})
            /\ {e[i].to : i \in toMer} = (IF last.added THEN {TgOf(o) : o \in others} ELSE {})
            /\ last.existed => toAdm = {} /\ toMer = {}

\* C8 witness: an addition raised a collision notification.
C8_Witness ==
    /\ last.added
    /\ \E i \in Sends(last.events) : last.events[i].topic = "collision"

\* C9: when a notification of a toggle cannot be delivered, nothing is sent
\* twice, the handler goes on to the re-render, and the visit change (and
\* the audit touch) it made stays in the ledger.
C9_DeliveryFailureSwallowed ==
    (IsToggle(last) /\ \E i \in Sends(last.events) : ~last.events[i].ok) =>
        LET e == last.events
        IN  /\ (last.key \in VisitKeys(visits)) = last.added
            /\ VisitKeys(visits) = (IF last.added THEN last.keysBefore \cup {last.key}
                                    ELSE last.keysBefore \ {last.key})
            /\ \A i \in Sends(e), j \in Sends(e) :
                   (e[i].to = e[j].to /\ e[i].topic = e[j].topic) => i = j
            /\ e[Len(e)].op = "render"
            /\ Idx(e, "touch_updated_after_submit") # {} =>
                   \E r \in submissions : /\ r.merchant_id = last.key[1]
                                          /\ r.updated_after_submit_at = last.at

\* C9 witness: an addition whose collision notification to the
\* administrator or to the other merchant failed.
C9_Witness ==
    /\ last.added
    /\ \E i \in Sends(last.events) :
           /\ ~last.events[i].ok
           /\ last.events[i].topic \in {"collision", "collision_merchant"}

RowsOfSub(subs, k) == {r \in subs : SubKey(r) = k}

\* C10: the first submit of a (merchant, month) creates the row and returns
\* created; a later one returns not created without an error, leaves the
\* row as it is and sends the administrators nothing; one row exists after
\* either.
C10_SubmitIdempotent ==
    [][(last'.at # last.at /\ last'.kind = "submit_send"
        /\ last'.result \in {"created", "exists", "error"}) =>
         LET k == last'.key
             e == last'.events
         IN  /\ Cardinality(RowsOfSub(submissions', k)) = 1
             /\ last'.result # "error"
             /\ IF RowsOfSub(submissions, k) = {}
                THEN /\ last'.created
                     /\ \A r \in RowsOfSub(submissions', k) :
                            r.submitted_at = last'.at /\ r.updated_after_submit_at = NULL
                     /\ Cardinality({i \in Sends(e) : e[i].topic = "submitted"}) = Len(ADMIN_IDS)
                ELSE /\ ~last'.created
                     /\ submissions' = submissions
                     /\ Sends(e) = {}]_vars

\* C10 witness: a submit found the month already submitted.
C10_Witness == last.kind = "submit_send" /\ last.result = "exists"

(***************************************************************************)
(* Concurrent submits.                                                     *)
(***************************************************************************)
\* C11: two concurrent submits of one (merchant, month) behave as one
\* atomic insert-if-absent: neither call raises, exactly one returns
\* created when the row was absent (none when it was present), and exactly
\* one row of the key exists afterwards.
C11_ConcurrentSubmitsAtomic ==
    \A c1 \in Conns, c2 \in Conns :
        (/\ c1 # c2
         /\ tx[c1].pc = "submit_done" /\ tx[c2].pc = "submit_done"
         /\ tx[c1].key = tx[c2].key
         /\ tx[c1].racing /\ tx[c2].racing)
        => /\ ~tx[c1].raised /\ ~tx[c2].raised
           /\ tx[c1].present0 => (~tx[c1].created /\ ~tx[c2].created)
           /\ ~tx[c1].present0 => (tx[c1].created # tx[c2].created)
           /\ Cardinality(RowsOfSub(submissions, tx[c1].key)) = 1

(***************************************************************************)
(* The audit of changes after submission.                                  *)
(***************************************************************************)
\* a handler that added a note or a reimbursement
IsAdjAdd(l) == l.result \in {"note_added", "reimb_added"}

\* the post-submission notifications among the events of a handler
AuditSends(e) == {i \in Sends(e) : e[i].topic = "post_submit_change"}

\* C12: when the merchant's Submission row of the month exists, a toggle or
\* the addition of a note or reimbursement at any point leaves the row with
\* a non-null updated_after_submit_at that is not earlier than the value
\* before, and sends exactly one post-submission notification to each
\* administrator, carrying the overall total of the month computed over
\* the rows after the change.
C12_PostSubmitAudit ==
    [][(/\ last'.at # last.at
        /\ (IsToggle(last') \/ IsAdjAdd(last'))
        /\ get_submission_status(submissions, last'.key[1],
                                 last'.key[3][1], last'.key[3][2]) # {}) =>
         LET mid == last'.key[1]
             y   == last'.key[3][1]
             m   == last'.key[3][2]
             e   == last'.events
         IN  /\ get_submission_status(submissions', mid, y, m) # {}
             /\ \A r \in get_submission_status(submissions', mid, y, m) :
                    /\ r.updated_after_submit_at # NULL
                    /\ \A r0 \in get_submission_status(submissions, mid, y, m) :
                           r0.updated_after_submit_at # NULL =>
                               r.updated_after_submit_at >= r0.updated_after_submit_at
             /\ \A i \in 1..Len(ADMIN_IDS) :
                    Cardinality({j \in AuditSends(e) : e[j].to = ADMIN_IDS[i]}) = 1
             /\ Cardinality(AuditSends(e)) = Len(ADMIN_IDS)
             /\ \A j \in AuditSends(e) :
                    e[j].arg.total = compute_overall_total(visits', reimbursements',
                                                           mid, y, m).total]_vars

\* C12 witness: in a submitted month a note was added after a visit had
\* been toggled in; the row is stamped with the time of the note and the
\* notification carries the pay of the visit plus the amount of the note.
C12_Witness ==
    /\ last.result = "note_added"
    /\ \E v \in visits : v.merchant_id = last.key[1] /\ v.point_code = "2674"
    /\ \E r \in submissions : /\ r.merchant_id = last.key[1]
                               /\ r.month_key = last.key[3]
                               /\ r.updated_after_submit_at = last.at
    /\ \E j \in AuditSends(last.events) : last.events[j].arg.total = 1000 + 350

\* a handler that changed the visit or adjustment rows of a scope
IsLedgerChange(l) ==
    /\ l.key # NoKey
    /\ \/ IsToggle(l) \/ IsAdjAdd(l)
       \/ l.result = "receipt_saved"
       \/ l.result = "draft_cancelled" /\ l.rid # 0

\* C13: a change of the visit or adjustment rows of (merchant, month) made
\* while that pair has no Submission row sends no post-submission
\* notification, performs no touch and leaves the submission ledger as it
\* was; and any such change leaves every Submission row of another month
\* or another merchant as it was and creates none.
C13_UnsubmittedUnaudited ==
    [][(last'.at # last.at /\ IsLedgerChange(last')) =>
         LET mid == last'.key[1]
             y   == last'.key[3][1]
             m   == last'.key[3][2]
             e   == last'.events
         IN  /\ get_submission_status(submissions, mid, y, m) = {} =>
                    /\ submissions' = submissions
                    /\ AuditSends(e) = {}
                    /\ Idx(e, "touch_updated_after_submit") = {}
             /\ \A r \in submissions \cup submissions' :
                    SubKey(r) # <<mid, month_start(y, m)>> =>
                        r \in submissions \cap submissions']_vars

\* C13 witness: both merchants have submitted November; merchant 1 toggled
\* a visit of December in, nobody was notified of a post-submission change
\* and both November rows are unstamped.
C13_Witness ==
    /\ IsToggle(last) /\ last.added
    /\ last.key[1] = 1 /\ last.key[3][2] = 12
    /\ AuditSends(last.events) = {}
    /\ \E r \in submissions : r.merchant_id = 1 /\ r.month_key = <<2026, 11, 1>>
                               /\ r.updated_after_submit_at = NULL
    /\ \E r \in submissions : r.merchant_id = 2 /\ r.month_key = <<2026, 11, 1>>
                               /\ r.updated_after_submit_at = NULL

\* C14: when the merchant's Submission row of the month exists, every
\* handler that changes the merchant's visit or adjustment rows of that
\* month -- a visit added or removed, a note or reimbursement added, a
\* receipt attached, a draft deleted on cancel -- performs the audit touch
\* after its write: the row is stamped with the time of the change and
\* the administrators are notified.
C14_EveryChangeTouches ==
    [][(/\ last'.at # last.at
        /\ IsLedgerChange(last')
        /\ (visits' # visits \/ reimbursements' # reimbursements)
        /\ get_submission_status(submissions, last'.key[1],
                                 last'.key[3][1], last'.key[3][2]) # {}) =>
         LET mid == last'.key[1]
             y   == last'.key[3][1]
             m   == last'.key[3][2]
             e   == last'.events
         IN  /\ Idx(e, "touch_updated_after_submit") # {}
             /\ \A r \in get_submission_status(submissions', mid, y, m) :
                    r.updated_after_submit_at = last'.at
             /\ AuditSends(e) # {}]_vars

\* C15: when the merchant's Submission row of the month exists, a toggle
\* that passes the checks of its input (a session, a valid date, a slot
\* legal for the weekday) still flips exactly its key in the visit ledger,
\* and a comment that passes the checks of its input (not the cancel word,
\* long enough) still inserts exactly one adjustment row with the kind,
\* amount and scope of the session: the row does not stand in the way.
C15_SubmissionNeverLocks ==
    [][(/\ last'.at # last.at
        /\ get_merch_by_tg_id(last'.user) # NULL
        /\ data[last'.user].cal_y # 0
        /\ get_submission_status(submissions, get_merch_by_tg_id(last'.user),
                                 data[last'.user].cal_y, data[last'.user].cal_m) # {}) =>
         LET u     == last'.user
             mid   == get_merch_by_tg_id(u)
             point == data[u].point_code
             y     == data[u].cal_y
             m     == data[u].cal_m
             key   == <<mid, point, <<y, m, last'.day>>, last'.slot>>
             row   == [id |-> reimb_seq + 1, merchant_id |-> mid, point_code |-> point,
                       month_key |-> <<y, m, 1>>, amount |-> data[u].pr_amount,
                       kind |-> IF data[u].pr_kind = "" THEN KIND_NOTE ELSE data[u].pr_kind,
                       receipt_file_id |-> NoText, receipt_uploaded_at |-> NULL]
         IN  /\ (/\ last'.kind \in {"cal_day_click", "cal_toggle_slot"}
                 /\ last'.slot \in SlotInputs
                 /\ point # ""
                 /\ ValidDate(y, m, last'.day)
                 /\ last'.slot = SLOT_FULL_INVENT =>
                        weekday_of(y, m, last'.day) \in {4, 5}) =>
                    /\ IsToggle(last')
                    /\ VisitKeys(visits') = (IF key \in VisitKeys(visits)
                                             THEN VisitKeys(visits) \ {key}
                                             ELSE VisitKeys(visits) \cup {key})
                    /\ last'.result = (IF key \in VisitKeys(visits) THEN "removed" ELSE "added")
             /\ (/\ last'.kind = "pr_text"
                 /\ last'.result \notin {"cancelled", "too_short"}) =>
                    /\ IsAdjAdd(last')
                    /\ \E r \in reimbursements' :
                           /\ [x \in DOMAIN row |-> r[x]] = row
                           /\ reimbursements' = reimbursements \cup {r}
                           /\ r \notin reimbursements]_vars

\* C15 witness: in a submitted month a visit was toggled in and then a
\* reimbursement was added; both rows are in the ledgers.
C15_Witness ==
    /\ last.result = "reimb_added"
    /\ get_submission_status(submissions, last.key[1], last.key[3][1], last.key[3][2]) # {}
    /\ \E r \in reimbursements : r.id = last.rid /\ r.kind = KIND_REIMB
    /\ \E v \in visits : v.merchant_id = last.key[1] /\ v.visit_date[2] = last.key[3][2]

(***************************************************************************)
(* The payroll aggregation.                                                *)
(***************************************************************************)
\* the stored rates of (point, month), or the defaults written out
RateRow(point, y, m) ==
    LET rows == {r \in point_rates : r.point_code = point /\ r.month_key = <<y, m, 1>>}
    IN  IF rows # {}
        THEN CHOOSE r \in rows : TRUE
        ELSE [rate_supply |-> 800, rate_no_supply |-> 400, rate_inventory |-> 400,
              coffee_enabled |-> FALSE, pay_lt5 |-> FALSE]

\* the box count of a date at a point, 0 without a supply record
BoxCount(point, d) ==
    LET rows == {r \in supplies : r.point_code = point /\ r.supply_date = d}
    IN  IF rows = {} THEN 0 ELSE (CHOOSE r \in rows : TRUE).boxes

Supplied(point, d, flag) == BoxCount(point, d) > 0 /\ (flag \/ BoxCount(point, d) >= 5)

\* the adjustment rows of a scope
AdjScope(mid, point, y, m) ==
    {r \in reimbursements : /\ r.merchant_id = mid /\ r.point_code = point
                            /\ r.month_key = <<y, m, 1>>}

\* the signed sum of the amounts of a set of adjustment rows, by id
AmountsById(rows) ==
    LET f[i \in 0..reimb_seq] ==
            IF i = 0 THEN 0
            ELSE f[i - 1] + (IF \E r \in rows : r.id = i
                             THEN (CHOOSE r \in rows : r.id = i).amount ELSE 0)
    IN  f[reimb_seq]

\* the visits of one slot kind in a scope
SlotVisits(mid, point, y, m, slot) ==
    {v \in visits : /\ v.merchant_id = mid /\ v.point_code = point /\ v.slot = slot
                    /\ v.visit_date[1] = y /\ v.visit_date[2] = m}

ExpectedPointTotal(mid, point, y, m) ==
    LET rt  == RateRow(point, y, m)
        day == SlotVisits(mid, point, y, m, SLOT_DAY)
        inv == SlotVisits(mid, point, y, m, SLOT_FULL_INVENT)
        sup == {v \in day : Supplied(point, v.visit_date, rt.pay_lt5)}
    IN  rt.rate_supply * Cardinality(sup)
        + rt.rate_no_supply * Cardinality(day \ sup)
        + rt.rate_inventory * Cardinality(inv)
        + (IF rt.coffee_enabled THEN 100 * Cardinality(day) ELSE 0)
        + AmountsById(AdjScope(mid, point, y, m))

\* C16: the per-point total of (merchant, point, month) is the rate with
\* supply for each DAY visit on an effectively supplied date and the rate
\* without supply for each other DAY visit (a date without a supply record
\* has 0 boxes), plus the inventory rate for each FULL_INVENT visit, plus
\* 100 per DAY visit when the coffee bonus is on, plus the signed sum of
\* the adjustment amounts of the scope.
C16_PointTotal ==
    calc.op = "compute_point_total" =>
        /\ calc.res.total = ExpectedPointTotal(calc.mid, calc.point, calc.y, calc.m)
        /\ calc.res.cnt_full_inv =
               Cardinality(SlotVisits(calc.mid, calc.point, calc.y, calc.m, SLOT_FULL_INVENT))
        /\ calc.res.cnt_day_total =
               Cardinality(SlotVisits(calc.mid, calc.point, calc.y, calc.m, SLOT_DAY))

\* C16 witness: with rates (900, 500, 450) and the coffee bonus on, a DAY
\* visit on a date with 5 boxes, both slots on a date without a supply
\* record, a note of -200 and a reimbursement of 350 give
\* 900 + 500 + 450 + 2 * 100 - 200 + 350.
C16_Witness ==
    /\ calc.op = "compute_point_total"
    /\ calc.res.total = 2200
    /\ calc.res.cnt_supply_day = 1 /\ calc.res.cnt_no_supply_day = 1
    /\ calc.res.cnt_full_inv = 1
    /\ calc.res.coffee_sum = 200
    /\ calc.res.notes_sum = -200 /\ calc.res.reimb_sum = 350

\* C17: effective_has_supply(b, flag) is true exactly when b > 0 and (flag
\* or b >= 5), for every integer b, zero and negative ones included:
\* (4, false) gives false, (4, true) true, (0, true) false.
C17_EffectiveHasSupply ==
    calc.op = "effective_has_supply" =>
        /\ calc.res = (calc.boxes > 0 /\ (calc.pay_lt5 \/ calc.boxes >= 5))
        /\ (calc.boxes = 4 /\ ~calc.pay_lt5) => ~calc.res
        /\ (calc.boxes = 4 /\ calc.pay_lt5) => calc.res
        /\ calc.boxes <= 0 => ~calc.res

\* C17 witness: four boxes count as a supply under the pay_lt5 flag.
C17_Witness ==
    calc.op = "effective_has_supply" /\ calc.boxes = 4 /\ calc.pay_lt5 /\ calc.res

\* the points at which the merchant has a visit in the month or an
\* adjustment for the month
ActivePoints(mid, y, m) ==
    {p \in PayPoints : \/ \E slot \in SlotInputs : SlotVisits(mid, p, y, m, slot) # {}
                       \/ AdjScope(mid, p, y, m) # {}}

\* the sum of the per-point totals over a set of points
SumOfPointTotals(S, mid, y, m) ==
    LET n   == Cardinality(PayPoints)
        seq == CHOOSE s \in [1..n -> PayPoints] : \A p \in PayPoints : \E i \in 1..n : s[i] = p
        f[i \in 0..n] ==
            IF i = 0 THEN 0
            ELSE f[i - 1] + (IF seq[i] \in S
                             THEN compute_point_total(visits, reimbursements,
                                                      mid, seq[i], y, m).total
                             ELSE 0)
    IN  f[n]

\* C18: the overall total of (merchant, month) is the sum of the per-point
\* totals over exactly the points with a visit of the merchant in the
\* month or an adjustment of the merchant for the month; every other point
\* has a per-point total of 0, so the overall total is also the sum over
\* all points.
C18_OverallTotal ==
    calc.op = "compute_overall_total" =>
        LET act == ActivePoints(calc.mid, calc.y, calc.m)
        IN  /\ DOMAIN calc.res.per_point = act
            /\ \A p \in act :
                   calc.res.per_point[p] =
                       compute_point_total(visits, reimbursements,
                                           calc.mid, p, calc.y, calc.m).total
            /\ calc.res.total = SumOfPointTotals(act, calc.mid, calc.y, calc.m)
            /\ \A p \in PayPoints \ act :
                   compute_point_total(visits, reimbursements,
                                       calc.mid, p, calc.y, calc.m).total = 0
            /\ calc.res.total = SumOfPointTotals(PayPoints, calc.mid, calc.y, calc.m)

\* C18 witness: the month of merchant 1 has a visited point and a point
\* with nothing but a reimbursement of 120; both are summed, a third point
\* is not among them.
C18_Witness ==
    /\ calc.op = "compute_overall_total"
    /\ \E v \in visits : v.merchant_id = calc.mid /\ v.point_code = "2674"
                          /\ v.visit_date[2] = calc.m
    /\ DOMAIN calc.res.per_point = {"2674", "4000"}
    /\ calc.res.per_point["4000"] = 120
    /\ calc.res.total = calc.res.per_point["2674"] + 120
    /\ calc.res.per_point["2674"] > 0

\* the REIMB rows of a scope
ReimbRows(mid, point, y, m) == {r \in AdjScope(mid, point, y, m) : r.kind = KIND_REIMB}

\* C19: the reimbursement sum inside the per-point total counts every
\* REIMB row of the scope, with or without a receipt; the missing-receipt
\* flag of the scope (of compute_point_total and of get_reimb_comments) is
\* true exactly when a REIMB row of the scope has no receipt; and
\* attaching a receipt leaves the total as it was while the flag follows
\* the rows.
C19_ReceiptFlagNotTotal ==
    /\ calc.op \in {"compute_point_total", "set_receipt"} =>
           /\ calc.res.reimb_sum =
                  AmountsById(ReimbRows(calc.mid, calc.point, calc.y, calc.m))
           /\ calc.res.missing_receipts =
                  (\E r \in ReimbRows(calc.mid, calc.point, calc.y, calc.m) :
                       r.receipt_file_id = NoText)
    /\ calc.op = "compute_point_total" =>
           calc.comments_missing = calc.res.missing_receipts
    /\ calc.op = "set_receipt" =>
           /\ calc.res.total = calc.before.total
           /\ calc.res.reimb_sum = calc.before.reimb_sum
           /\ \A r \in reimbursements :
                  (r.id = calc.id /\ r.kind = KIND_REIMB) => r.receipt_file_id # NoText

\* C19 witness: of two reimbursements at one point one awaited its receipt;
\* the receipt was attached, the flag went from true to false and the
\* total, with both amounts in it, stayed.
C19_Witness ==
    /\ calc.op = "set_receipt"
    /\ calc.before.missing_receipts /\ ~calc.res.missing_receipts
    /\ calc.res.reimb_sum = 350 + 90
    /\ calc.res.total = calc.before.total
    /\ calc.res.total # 0

\* C20: get_point_rates of (point, month) is the five fields of the stored
\* row of exactly that point and month when there is one, and (800, 400,
\* 400, off, off) when there is none, whatever rows of other points or
\* months are stored; no result mixes the two.
C20_RateResolution ==
    calc.op = "get_point_rates" =>
        LET rows == {r \in point_rates : /\ r.point_code = calc.point
                                         /\ r.month_key = <<calc.y, calc.m, 1>>}
        IN  IF rows = {}
            THEN calc.res = <<800, 400, 400, FALSE, FALSE>>
            ELSE \E r \in rows :
                     calc.res = <<r.rate_supply, r.rate_no_supply, r.rate_inventory,
                                  r.coffee_enabled, r.pay_lt5>>

\* C20 witness: rates are stored for 2674 in December and for 3001 in
\* November; 2674 in November resolves to the defaults.
C20_Witness ==
    /\ calc.op = "get_point_rates"
    /\ calc.point = "2674" /\ calc.m = 11
    /\ \E r \in point_rates : r.point_code = "2674" /\ r.month_key = <<2026, 12, 1>>
    /\ \E r \in point_rates : r.point_code = "3001" /\ r.month_key = <<2026, 11, 1>>
    /\ calc.res = <<800, 400, 400, FALSE, FALSE>>

(***************************************************************************)
(* The calendar.                                                           *)
(***************************************************************************)
\* C21: no session holds a point and month without a supply record; a
\* point or a month that has none is refused with the message that names
\* the territory manager, and the refusal leaves the session (its state,
\* point and month) as it was.
C21_NoCalendarWithoutSupply ==
    [][/\ \A u \in Handles :
              data'[u].point_code # "" =>
                  \E r \in supplies : /\ r.point_code = data'[u].point_code
                                       /\ r.supply_date[1] = data'[u].cal_y
                                       /\ r.supply_date[2] = data'[u].cal_m
       /\ (last'.at # last.at /\ last'.result = "no_supply") =>
              /\ last'.kind \in {"fill_reconcile_point", "cal_nav"}
              /\ last'.events = <<Answer(last'.user, "no_supply")>>
              /\ data' = data /\ fsm' = fsm
              /\ UNCHANGED <<visits, submissions>>
       /\ (/\ last'.at # last.at
           /\ last'.kind = "cal_nav"
           /\ data[last'.user].cal_y # 0
           /\ data' = data) =>
              last'.result = "no_supply"]_vars

\* C21 witness: with the calendar of a point open, the navigation to a
\* month without a supply record of the point was refused.
C21_Witness ==
    /\ last.kind = "cal_nav" /\ last.result = "no_supply"
    /\ fsm[last.user] = Calendar
    /\ data[last.user].point_code = "2674" /\ data[last.user].cal_m = 11

\* the Fridays and Saturdays among the dates of the calendar buttons:
\* 2026-11-06 is a Friday and 2026-12-05 a Saturday (2026-11-05 is a
\* Thursday, 2026-12-06 a Sunday)
FriSatDates == {<<2026, 11, 6>>, <<2026, 12, 5>>}

\* the visit ledger after the flip of key k
Flipped(vs, k) == IF k \in VisitKeys(vs) THEN VisitKeys(vs) \ {k} ELSE VisitKeys(vs) \cup {k}

\* C22: a click on a date from Monday to Thursday or on a Sunday toggles
\* the DAY slot of that date at once; a click on a Friday or Saturday
\* changes no ledger row and opens the slot menu of that date; from the
\* menu a toggle of DAY or of FULL_INVENT flips exactly that slot of the
\* date and shows the calendar again, and the back button shows the
\* calendar again and changes no ledger row.
C22_DayClickAndSlotMenu ==
    [][(/\ last'.at # last.at
        /\ data[last'.user].point_code # ""
        /\ get_merch_by_tg_id(last'.user) # NULL) =>
         LET u    == last'.user
             mid  == get_merch_by_tg_id(u)
             d    == <<data[u].cal_y, data[u].cal_m, last'.day>>
             Key(slot) == <<mid, data[u].point_code, d, slot>>
         IN  /\ (last'.kind = "cal_day_click" /\ d \notin FriSatDates) =>
                    /\ IsToggle(last') /\ last'.slot = SLOT_DAY
                    /\ VisitKeys(visits') = Flipped(visits, Key(SLOT_DAY))
                    /\ menu'[u] = menu[u]
                    /\ fsm'[u] = fsm[u] /\ data'[u] = data[u]
             /\ (last'.kind = "cal_day_click" /\ d \in FriSatDates) =>
                    /\ last'.result = "menu"
                    /\ menu'[u] = d
                    /\ UNCHANGED <<visits, visit_seq, submissions, sub_seq>>
                    /\ fsm'[u] = fsm[u] /\ data'[u] = data[u]
             /\ (last'.kind = "cal_toggle_slot" /\ menu[u] = d) =>
                    /\ IsToggle(last')
                    /\ VisitKeys(visits') = Flipped(visits, Key(last'.slot))
                    /\ menu'[u] = NoMenu
                    /\ fsm'[u] = fsm[u] /\ data'[u] = data[u]
             /\ (last'.kind = "slot_cancel" /\ menu[u] # NoMenu) =>
                    /\ last'.result = "ok"
                    /\ menu'[u] = NoMenu
                    /\ UNCHANGED <<visits, visit_seq, submissions, sub_seq>>
                    /\ fsm'[u] = fsm[u] /\ data'[u] = data[u]]_vars

\* C22 witness: a click on Thursday 2026-11-05 has toggled the DAY visit
\* in, and a click on Friday 2026-11-06 has opened the slot menu.
C22_Witness ==
    /\ last.kind = "cal_day_click" /\ last.result = "menu"
    /\ menu[last.user] = <<2026, 11, 6>>
    /\ \E v \in visits : /\ v.merchant_id = get_merch_by_tg_id(last.user)
                          /\ v.visit_date = <<2026, 11, 5>> /\ v.slot = SLOT_DAY

(***************************************************************************)
(* Login and roster.  A text is a sequence of one-character strings; "Yo"  *)
(* and "yo" stand for the Cyrillic letter io in upper and lower case.      *)
(***************************************************************************)
WaitingFio == "LoginFlow:waiting_fio"
WaitingLast4 == "LoginFlow:waiting_last4"
WaitingFile == "UploadMerchants:waiting_file"

Digits == {"0", "1", "2", "3", "4", "5", "6", "7", "8", "9"}

Letters == {"a", "b", "e"}

\* uid in ADMIN_IDS
is_admin(uid) == \E i \in 1..Len(ADMIN_IDS) : ADMIN_IDS[i] = uid

\* str.lower() of one character
LowerOf(c) ==
    CASE c = "A" -> "a"
      [] c = "B" -> "b"
      [] c = "E" -> "e"
      [] c = "Yo" -> "yo"
      [] OTHER -> c

\* re.sub(r"\s+", " ", s) of a stripped text, from position i on: of a run
\* of whitespace only the first character stays
RECURSIVE CollapseFrom(_, _)
CollapseFrom(s, i) ==
    IF i > Len(s) THEN <<>>
    ELSE (IF s[i] # " " \/ (i > 1 /\ s[i - 1] # " ") THEN <<s[i]>> ELSE <<>>)
         \o CollapseFrom(s, i + 1)

\* fio_display: strip, then every run of whitespace becomes one space
fio_display(s) == CollapseFrom(Strip(s), 1)

\* fio_norm: strip and lower, io becomes e, every character that is no
\* letter becomes a space, runs of whitespace collapse, strip again
fio_norm(s) ==
    LET t == Strip(s)
        lowered == [i \in 1..Len(t) |-> LowerOf(t[i])]
        e_for_io == [i \in 1..Len(t) |-> IF lowered[i] = "yo" THEN "e" ELSE lowered[i]]
        letters == [i \in 1..Len(t) |-> IF e_for_io[i] \in Letters THEN e_for_io[i] ELSE " "]
    IN  Strip(CollapseFrom(letters, 1))

\* extract_last4_from_phone: the digits of the text, of them the last four;
\* empty when there are fewer than four
extract_last4_from_phone(phone) ==
    LET digits == SelectSeq(phone, LAMBDA c : c \in Digits)
    IN  IF Len(digits) >= 4 THEN SubSeq(digits, Len(digits) - 3, Len(digits)) ELSE <<>>

\* re.fullmatch(r"\d{4}", t)
IsFourDigits(t) == Len(t) = 4 /\ \A i \in 1..Len(t) : t[i] \in Digits

\* hash_last4: sha256 of the stripped text and the salt; distinct texts
\* have distinct digests
hash_last4(last4) == <<"sha256">> \o Strip(last4)

\* len(fio_n.split(" "))
WordCount(fio_n) == 1 + Cardinality({i \in 1..Len(fio_n) : fio_n[i] = " "})

\* SELECT id, fio, pass_hash, telegram_id, tu FROM merchants
\* WHERE fio_norm=:fn, first row; <<>> when there is none
get_merch_by_fio(fio) ==
    LET rows == {r \in merchants : r.fio_norm = fio_norm(fio)}
    IN  IF rows = {} THEN <<>> ELSE <<CHOOSE r \in rows : TRUE>>

\* UPDATE merchants SET telegram_id=:tg WHERE id=:id
bind_merch_tg_id(ms, merch_id, tg_id) ==
    {IF r.id = merch_id THEN [r EXCEPT !.telegram_id = tg_id] ELSE r : r \in ms}

\* telegram_id BIGINT UNIQUE: the update is refused when another row holds tg_id
BindRefused(ms, merch_id, tg_id) ==
    \E r \in ms : r.id # merch_id /\ r.telegram_id = tg_id

\* UPDATE merchants SET telegram_id=NULL WHERE telegram_id=:tg
unbind_merch_tg_id(ms, tg_id) ==
    {IF r.telegram_id = tg_id THEN [r EXCEPT !.telegram_id = NULL] ELSE r : r \in ms}

\* verify_login_last4 after its SELECT returned found: the verdict, its
\* message, the merchant it is about and the merchants table ms after it
verify_login_last4_write(ms, found, user_tg_id, last4) ==
    LET No(msg, mid) == [ok |-> FALSE, msg |-> msg, mid |-> mid,
                         raised |-> FALSE, merchants |-> ms]
        Check(merch) ==
            IF hash_last4(last4) # merch.pass_hash
            THEN No("last4_mismatch", merch.id)
            ELSE IF merch.telegram_id # NULL /\ merch.telegram_id # user_tg_id
            THEN No("bound_to_other", merch.id)
            ELSE IF BindRefused(ms, merch.id, user_tg_id)
            THEN [No("", merch.id) EXCEPT !.raised = TRUE]
            ELSE [ok |-> TRUE, msg |-> "login_ok", mid |-> merch.id, raised |-> FALSE,
                  merchants |-> bind_merch_tg_id(ms, merch.id, user_tg_id)]
    IN  IF found = <<>> THEN No("not_found", 0) ELSE Check(found[1])

\* mutant: verify_login_last4 without the comparison of the digests
verify_login_last4_any_secret(user_tg_id, fio_in, last4) ==
    LET found == get_merch_by_fio(fio_in)
        No(msg, mid) == [ok |-> FALSE, msg |-> msg, mid |-> mid,
                         raised |-> FALSE, merchants |-> merchants]
        Check(merch) ==
            IF merch.telegram_id # NULL /\ merch.telegram_id # user_tg_id
            THEN No("bound_to_other", merch.id)
            ELSE IF BindRefused(merchants, merch.id, user_tg_id)
            THEN [No("", merch.id) EXCEPT !.raised = TRUE]
            ELSE [ok |-> TRUE, msg |-> "login_ok", mid |-> merch.id, raised |-> FALSE,
                  merchants |-> bind_merch_tg_id(merchants, merch.id, user_tg_id)]
    IN  IF found = <<>> THEN No("not_found", 0) ELSE Check(found[1])

\* verify_login_last4 without the check of the handle that is bound already
verify_login_last4_rebinds(user_tg_id, fio_in, last4) ==
    LET found == get_merch_by_fio(fio_in)
        No(msg, mid) == [ok |-> FALSE, msg |-> msg, mid |-> mid,
                         raised |-> FALSE, merchants |-> merchants]
        Check(merch) ==
            IF hash_last4(last4) # merch.pass_hash
            THEN No("last4_mismatch", merch.id)
            ELSE IF BindRefused(merchants, merch.id, user_tg_id)
            THEN [No("", merch.id) EXCEPT !.raised = TRUE]
            ELSE [ok |-> TRUE, msg |-> "login_ok", mid |-> merch.id, raised |-> FALSE,
                  merchants |-> bind_merch_tg_id(merchants, merch.id, user_tg_id)]
    IN  IF found = <<>> THEN No("not_found", 0) ELSE Check(found[1])

\* verify_login_last4: the SELECT of get_merch_by_fio and what follows it
verify_login_last4(user_tg_id, fio_in, last4) ==
    verify_login_last4_write(merchants, get_merch_by_fio(fio_in), user_tg_id, last4)

\* /start
start_handler(u) ==
    /\ now < MaxTime
    /\ now' = now + 1
    /\ IF get_merch_by_tg_id(u) # NULL
       THEN /\ fsm' = [fsm EXCEPT ![u] = NoState]
            /\ data' = [data EXCEPT ![u] = EmptyData]
            /\ last' = Plain("start_handler", u, now', "already_authorised",
                             <<Answer(u, "already_authorised")>>)
       ELSE /\ fsm' = [fsm EXCEPT ![u] = WaitingFio]
            /\ UNCHANGED data
            /\ last' = Plain("start_handler", u, now', "ask_fio", <<Answer(u, "ask_fio")>>)
    /\ UNCHANGED <<Ledgers, Books, menu, tx>>

\* a text in LoginFlow.waiting_fio
login_get_fio(u, txt) ==
    /\ now < MaxTime
    /\ fsm[u] = WaitingFio
    /\ now' = now + 1
    /\ IF get_merch_by_fio(fio_display(txt)) = <<>>
       THEN /\ UNCHANGED <<fsm, data>>
            /\ last' = Plain("login_get_fio", u, now', "not_found",
                             <<Answer(u, "fio_not_found")>>)
       ELSE /\ data' = [data EXCEPT ![u].fio = fio_display(txt)]
            /\ fsm' = [fsm EXCEPT ![u] = WaitingLast4]
            /\ last' = Plain("login_get_fio", u, now', "ask_last4", <<Answer(u, "ask_last4")>>)
    /\ UNCHANGED <<Ledgers, Books, menu, tx>>

\* a text in LoginFlow.waiting_last4 (last.key: the text, last.rid: the
\* merchant the login was about)
login_get_last4(u, txt) ==
    /\ now < MaxTime
    /\ fsm[u] = WaitingLast4
    /\ now' = now + 1
    /\ IF ~IsFourDigits(Strip(txt))
       THEN /\ UNCHANGED <<merchants, fsm, data>>
            /\ last' = DidAdj("login_get_last4", u, now', "bad_format", txt, 0,
                              <<Answer(u, "need_four_digits")>>)
       ELSE \E v \in {verify_login_last4(u, data[u].fio, Strip(txt))} :
                /\ merchants' = v.merchants
                /\ IF v.ok
                   THEN /\ fsm' = [fsm EXCEPT ![u] = NoState]
                        /\ data' = [data EXCEPT ![u] = EmptyData]
                   ELSE UNCHANGED <<fsm, data>>
                /\ last' = DidAdj("login_get_last4", u, now',
                                  IF v.raised THEN "raised" ELSE v.msg, txt, v.mid,
                                  IF v.raised THEN <<>> ELSE <<Answer(u, v.msg)>>)
    /\ UNCHANGED <<merch_seq, supplies, visits, visit_seq, submissions, sub_seq, Books, menu, tx>>

\* /unlink_me
unlink_me_cmd(u) ==
    /\ now < MaxTime
    /\ fsm[u] \notin {WaitingFio, WaitingLast4}
    /\ now' = now + 1
    /\ IF ~is_admin(u)
       THEN /\ UNCHANGED merchants
            /\ last' = Plain("unlink_me_cmd", u, now', "admin_only", <<Answer(u, "admin_only")>>)
       ELSE /\ merchants' = unbind_merch_tg_id(merchants, u)
            /\ IF \E r \in merchants : r.telegram_id = u
               THEN last' = Plain("unlink_me_cmd", u, now', "unlinked", <<Answer(u, "unlinked")>>)
               ELSE last' = Plain("unlink_me_cmd", u, now', "not_linked",
                                  <<Answer(u, "not_linked")>>)
    /\ UNCHANGED <<merch_seq, supplies, visits, visit_seq, submissions, sub_seq, Books,
                   fsm, data, menu, tx>>

\* upsert_merchant with a conflict clause that also resets the bound handle
upsert_merchant_resets_handle(st, fio_raw, phone_raw, tu) ==
    LET fio_disp == fio_display(fio_raw)
        fio_n == fio_norm(fio_raw)
        last4 == extract_last4_from_phone(phone_raw)
        hit == {r \in st.rows : r.fio_norm = fio_n}
    IN  IF fio_n = <<>> \/ WordCount(fio_n) < 2 \/ ~IsFourDigits(last4)
        THEN [st EXCEPT !.skipped = @ + 1]
        ELSE IF hit = {}
        THEN [st EXCEPT !.rows = @ \cup {[id |-> st.seq + 1, fio |-> fio_disp,
                                          fio_norm |-> fio_n,
                                          pass_hash |-> hash_last4(last4),
                                          telegram_id |-> NULL, tu |-> tu]},
                        !.seq = @ + 1, !.added = @ + 1]
        ELSE [st EXCEPT !.rows = {IF r \in hit
                                  THEN [r EXCEPT !.fio = fio_disp,
                                                 !.pass_hash = hash_last4(last4),
                                                 !.tu = tu, !.telegram_id = NULL]
                                  ELSE r : r \in @},
                        !.seq = @ + 1, !.updated = @ + 1]

\* upsert_merchant: the table, the sequence behind merchants.id and the
\* verdict (inserted, updated, skipped) after one roster row
upsert_merchant(st, fio_raw, phone_raw, tu) ==
    LET fio_disp == fio_display(fio_raw)
        fio_n == fio_norm(fio_raw)
        last4 == extract_last4_from_phone(phone_raw)
        hit == {r \in st.rows : r.fio_norm = fio_n}
    IN  IF fio_n = <<>> \/ WordCount(fio_n) < 2 \/ ~IsFourDigits(last4)
        THEN [st EXCEPT !.skipped = @ + 1]
        ELSE IF hit = {}
        THEN [st EXCEPT !.rows = @ \cup {[id |-> st.seq + 1, fio |-> fio_disp,
                                          fio_norm |-> fio_n,
                                          pass_hash |-> hash_last4(last4),
                                          telegram_id |-> NULL, tu |-> tu]},
                        !.seq = @ + 1, !.added = @ + 1]
        ELSE [st EXCEPT !.rows = {IF r \in hit
                                  THEN [r EXCEPT !.fio = fio_disp,
                                                 !.pass_hash = hash_last4(last4),
                                                 !.tu = tu]
                                  ELSE r : r \in @},
                        !.seq = @ + 1, !.updated = @ + 1]

\* for row in ws.iter_rows(...): upsert_merchant(conn, a, b, tu), from row i on
RECURSIVE upsert_rows(_, _, _, _)
upsert_rows(st, file, i, tu) ==
    IF i > Len(file) THEN st
    ELSE upsert_rows(upsert_merchant(st, file[i].fio, file[i].phone, tu), file, i + 1, tu)

\* /upload_merchants <tu>
upload_merchants_cmd(u, tu) ==
    /\ now < MaxTime
    /\ fsm[u] \notin {WaitingFio, WaitingLast4}
    /\ now' = now + 1
    /\ IF ~is_admin(u)
       THEN /\ UNCHANGED <<fsm, data>>
            /\ last' = Plain("upload_merchants_cmd", u, now', "admin_only",
                             <<Answer(u, "admin_only")>>)
       ELSE IF tu = ""
       THEN /\ UNCHANGED <<fsm, data>>
            /\ last' = Plain("upload_merchants_cmd", u, now', "usage", <<Answer(u, "usage")>>)
       ELSE /\ fsm' = [fsm EXCEPT ![u] = WaitingFile]
            /\ data' = [data EXCEPT ![u].upload_tu = tu]
            /\ last' = Plain("upload_merchants_cmd", u, now', "ask_file",
                             <<Answer(u, "ask_file")>>)
    /\ UNCHANGED <<Ledgers, Books, menu, tx>>

\* a document in UploadMerchants.waiting_file (last.key: the rows of the file)
handle_merchants_file(u, ext, file) ==
    /\ now < MaxTime
    /\ fsm[u] = WaitingFile
    /\ now' = now + 1
    /\ IF ~is_admin(u)
       THEN /\ UNCHANGED <<merchants, merch_seq, fsm, data>>
            /\ last' = Plain("handle_merchants_file", u, now', "admin_only",
                             <<Answer(u, "admin_only")>>)
       ELSE /\ fsm' = [fsm EXCEPT ![u] = NoState]
            /\ data' = [data EXCEPT ![u] = EmptyData]
            /\ IF data[u].upload_tu = ""
               THEN /\ UNCHANGED <<merchants, merch_seq>>
                    /\ last' = Plain("handle_merchants_file", u, now', "no_tu",
                                     <<Answer(u, "no_tu")>>)
               ELSE IF ext # "xlsx"
               THEN /\ UNCHANGED <<merchants, merch_seq>>
                    /\ last' = Plain("handle_merchants_file", u, now', "need_xlsx",
                                     <<Answer(u, "need_xlsx")>>)
               ELSE \E st \in {upsert_rows([rows |-> merchants, seq |-> merch_seq, added |-> 0,
                                            updated |-> 0, skipped |-> 0],
                                           file, 1, data[u].upload_tu)} :
                        /\ merchants' = st.rows
                        /\ merch_seq' = st.seq
                        /\ last' = DidAdj("handle_merchants_file", u, now', "roster_done",
                                          file, 0,
                                          <<Ev("answer", u, TRUE, "roster_done",
                                               <<data[u].upload_tu, st.added, st.updated,
                                                 st.skipped>>)>>)
    /\ UNCHANGED <<supplies, visits, visit_seq, submissions, sub_seq, Books, menu, tx>>

\* the handles at work in the login runs: an operator and the administrator
LoginHandles == {103, 900}

\* what an operator types for a name: merchant 1 as in the roster, merchant 1
\* in other case and spacing, merchant 2, and a name not in the roster
FioInputs == {<<"A", "b", " ", "B", "a">>,
              <<" ", "a", "B", " ", " ", "b", "a">>,
              <<"B", "a", " ", "A", "b">>,
              <<"E", "e", " ", "A", "b">>}

\* what an operator types for the four digits
Last4Inputs == {<<"6", "3", "8", "4">>, <<"1", "2", "3", "4", " ">>, <<"6", "3", "8">>}

\* the rows an administrator's roster file is made of: merchant 1 in another
\* spelling with another phone, a new merchant, a one-word name, a phone with
\* three digits
RosterRows == <<[fio |-> <<"a", "b", "-", "B", "a", " ">>, phone |-> <<"1", "2", "-", "3", "4">>],
                [fio |-> <<"Yo", "e", " ", "a", "b">>,
                 phone |-> <<"+", "7", "9", "6", "3", "8", "4">>],
                [fio |-> <<"A", "b">>, phone |-> <<"6", "3", "8", "4">>],
                [fio |-> <<"B", "a", " ", "A", "b">>, phone |-> <<"1", "2", "3">>]>>

MaxRosterRows == 2

RosterFiles ==
    UNION {[1..n -> {RosterRows[i] : i \in 1..Len(RosterRows)}] : n \in 1..MaxRosterRows}

\* the documents an administrator sends: a roster workbook, or a file of
\* another type, whose content is never read
RosterDocs ==
    {[ext |-> "xlsx", rows |-> f] : f \in RosterFiles} \cup {[ext |-> "csv", rows |-> <<>>]}

\* the territory tags typed after /upload_merchants, "" when none is typed
TuInputs == {"tu2", ""}

\* the roster holds two merchants; each may be bound to a handle already:
\* merchant 1 to operator 103, merchant 2 to the administrator's handle
InitLogin ==
    /\ \E t1 \in {NULL, 103}, t2 \in {NULL, 900} :
           merchants = {[id |-> 1, fio |-> <<"A", "b", " ", "B", "a">>,
                         fio_norm |-> <<"a", "b", " ", "b", "a">>,
                         pass_hash |-> <<"sha256", "6", "3", "8", "4">>,
                         telegram_id |-> t1, tu |-> "tu1"],
                        [id |-> 2, fio |-> <<"B", "a", " ", "A", "b">>,
                         fio_norm |-> <<"b", "a", " ", "a", "b">>,
                         pass_hash |-> <<"sha256", "1", "2", "3", "4">>,
                         telegram_id |-> t2, tu |-> ""]}
    /\ merch_seq = 2
    /\ supplies = {}
    /\ visits = {}
    /\ visit_seq = 0
    /\ submissions = {}
    /\ sub_seq = 0
    /\ now = 0
    /\ fsm = [u \in LoginHandles |-> NoState]
    /\ data = [u \in LoginHandles |-> EmptyData]
    /\ menu = [u \in LoginHandles |-> NoMenu]
    /\ tx = [c \in Conns |-> Idle]
    /\ reimbursements = {}
    /\ reimb_seq = 0
    /\ point_rates = {}
    /\ calc = NoCalc
    /\ last = [kind |-> "init", user |-> 0, at |-> 0, slot |-> "", day |-> 0,
               result |-> "", key |-> NoKey, existed |-> FALSE, added |-> FALSE,
               created |-> FALSE, keysBefore |-> {}, events |-> <<>>, rid |-> 0,
               repeat |-> FALSE]

NextLogin ==
    \/ \E u \in LoginHandles : start_handler(u)
    \/ \E u \in LoginHandles, txt \in FioInputs : login_get_fio(u, txt)
    \/ \E u \in LoginHandles, txt \in Last4Inputs : login_get_last4(u, txt)
    \/ \E u \in LoginHandles, txt \in {"Otmena", "Zanovo"} : cancel_or_restart(u, txt)
    \/ \E u \in LoginHandles : unlink_me_cmd(u)

SpecLogin == InitLogin /\ [][NextLogin]_vars

\* the roster uploads, on the same datastores
NextRoster ==
    \/ \E u \in LoginHandles, tu \in TuInputs : upload_merchants_cmd(u, tu)
    \/ \E u \in LoginHandles, doc \in RosterDocs : handle_merchants_file(u, doc.ext, doc.rows)
    \/ \E u \in LoginHandles, txt \in {"Otmena", "Zanovo"} : cancel_or_restart(u, txt)

SpecRoster == InitLogin /\ [][NextRoster]_vars

(***************************************************************************)
(* SpecLoginConc: two logins on two connections.  login_get_last4 runs the *)
(* SELECT of get_merch_by_fio in one step and the checks, the UPDATE of    *)
(* bind_merch_tg_id and the rest of the handler in a later one.  Inside    *)
(* one process verify_login_last4 has no await between the two, so the     *)
(* connections are those of two processes of the application on the one    *)
(* database, each with the sessions of the handles it serves.              *)
(***************************************************************************)
FreeLogin(c) == tx[c].pc \in {"idle", "login_done"}

\* login_get_last4 up to and including the SELECT of get_merch_by_fio
tx_login_begin(c, u, txt) ==
    LET found == get_merch_by_fio(data[u].fio)
        Rival(c2) == /\ c2 # c /\ tx[c2].pc = "login_selected"
                     /\ tx[c2].existing # <<>> /\ tx[c2].existing = found
    IN  /\ now < MaxTime
        /\ FreeLogin(c)
        /\ fsm[u] = WaitingLast4
        /\ \A c2 \in Conns : tx[c2].pc = "login_selected" => tx[c2].user # u
        /\ IsFourDigits(Strip(txt))
        /\ now' = now + 1
        /\ tx' = [c2 \in Conns |->
                    IF c2 = c
                    THEN [Idle EXCEPT !.pc = "login_selected", !.user = u,
                                      !.key = Strip(txt), !.existing = found,
                                      !.racing = (\E c3 \in Conns : Rival(c3))]
                    ELSE IF Rival(c2) THEN [tx[c2] EXCEPT !.racing = TRUE]
                    ELSE tx[c2]]
        /\ UNCHANGED <<Books, Ledgers, fsm, data, menu, last>>

\* the checks of verify_login_last4 on the row it read, the UPDATE of
\* bind_merch_tg_id with its commit, and the rest of login_get_last4 (a
\* handler that has begun runs to its end, whatever the time)
tx_login_write(c) ==
    /\ tx[c].pc = "login_selected"
    /\ now' = now + 1
    /\ \E u \in {tx[c].user} :
       \E v \in {verify_login_last4_write(merchants, tx[c].existing, u, tx[c].key)} :
           /\ merchants' = v.merchants
           /\ IF v.ok
              THEN /\ fsm' = [fsm EXCEPT ![u] = NoState]
                   /\ data' = [data EXCEPT ![u] = EmptyData]
              ELSE UNCHANGED <<fsm, data>>
           /\ tx' = [tx EXCEPT ![c].pc = "login_done", ![c].ok = v.ok,
                               ![c].raised = v.raised]
           /\ last' = DidAdj("login_get_last4", u, now',
                             IF v.raised THEN "raised" ELSE v.msg, tx[c].key, v.mid,
                             IF v.raised THEN <<>> ELSE <<Answer(u, v.msg)>>)
    /\ UNCHANGED <<merch_seq, supplies, visits, visit_seq, submissions, sub_seq, Books, menu>>

NextLoginConc ==
    \/ \E u \in LoginHandles : start_handler(u)
    \/ \E u \in LoginHandles, txt \in FioInputs : login_get_fio(u, txt)
    \/ \E c \in Conns, u \in LoginHandles, txt \in Last4Inputs : tx_login_begin(c, u, txt)
    \/ \E c \in Conns : tx_login_write(c)
    \/ \E u \in LoginHandles : unlink_me_cmd(u)

SpecLoginConc == InitLogin /\ [][NextLoginConc]_vars

(***************************************************************************)
(* C23: a login with the correct secret for a merchant whose bound handle  *)
(* is set and differs from the requesting handle fails with the            *)
(* already-bound-to-another message and leaves the binding unchanged; when *)
(* the bound handle equals the requesting handle the login succeeds and    *)
(* the binding stays; when no handle is bound the requesting handle        *)
(* becomes the bound handle, and no other merchant's binding changes.      *)
(***************************************************************************)
\* the merchants whose name the session holds and whose secret is text d
SecretHolders(u, d) ==
    {r \in merchants : /\ r.fio_norm = fio_norm(data[u].fio)
                       /\ r.pass_hash = <<"sha256">> \o d}

BindingOf(ms, mid) == {r.telegram_id : r \in {x \in ms : x.id = mid}}

C23_LoginBinding ==
    [][(last'.at # last.at /\ last'.kind = "login_get_last4") =>
          \A r \in SecretHolders(last'.user, Strip(last'.key)) :
              /\ IsFourDigits(Strip(last'.key))
              /\ (r.telegram_id # NULL /\ r.telegram_id # last'.user) =>
                     /\ last'.result = "bound_to_other"
                     /\ last'.events = <<Answer(last'.user, "bound_to_other")>>
                     /\ merchants' = merchants
                     /\ fsm'[last'.user] = WaitingLast4
              /\ r.telegram_id = last'.user =>
                     /\ last'.result = "login_ok"
                     /\ merchants' = merchants
              /\ r.telegram_id = NULL =>
                     /\ last'.result = "login_ok"
                     /\ last'.events = <<Answer(last'.user, "login_ok")>>
                     /\ BindingOf(merchants', r.id) = {last'.user}
                     /\ \A o \in merchants : o.id # r.id => o \in merchants'
                     /\ fsm'[last'.user] = NoState]_vars

\* C23 witness: operator 103 has logged in as merchant 2, which no handle
\* was bound to, and the login of handle 900 as merchant 2 has been refused
C23_Witness ==
    /\ last.kind = "login_get_last4" /\ last.user = 900
    /\ last.result = "bound_to_other" /\ last.rid = 2
    /\ BindingOf(merchants, 2) = {103}
    /\ fsm[900] = WaitingLast4 /\ fsm[103] = NoState

(***************************************************************************)
(* C24: once a merchant is bound to a handle, that handle is never         *)
(* replaced by another unless the administrator clears it first; and when  *)
(* two different handles complete a correct login for the same unbound     *)
(* merchant concurrently, exactly one of them ends up bound and the other  *)
(* login does not report success.                                          *)
(***************************************************************************)
\* two connections have each completed a login of a different handle for
\* the same merchant, read by both before either wrote
LoginRace(c1, c2) ==
    /\ c1 # c2
    /\ tx[c1].pc = "login_done" /\ tx[c2].pc = "login_done"
    /\ tx[c1].racing /\ tx[c2].racing
    /\ tx[c1].user # tx[c2].user
    /\ tx[c1].existing = tx[c2].existing
    /\ tx[c1].existing # <<>>
    /\ tx[c1].existing[1].telegram_id = NULL
    /\ hash_last4(tx[c1].key) = tx[c1].existing[1].pass_hash
    /\ hash_last4(tx[c2].key) = tx[c2].existing[1].pass_hash

C24_BindingStable ==
    [][/\ \A r \in merchants : \A r2 \in merchants' :
              (r.id = r2.id /\ r.telegram_id # NULL /\ r2.telegram_id # r.telegram_id) =>
                  /\ r2.telegram_id = NULL
                  /\ last'.kind = "unlink_me_cmd" /\ is_admin(last'.user)
       /\ \A c1, c2 \in Conns :
              LoginRace(c1, c2)' =>
                  /\ tx'[c1].ok # tx'[c2].ok
                  /\ \E r \in merchants' :
                         /\ r.id = tx'[c1].existing[1].id
                         /\ r.telegram_id = (IF tx'[c1].ok THEN tx'[c1].user
                                              ELSE tx'[c2].user)]_vars

(***************************************************************************)
(* C25: a roster row whose normalised name already exists updates that     *)
(* merchant's display name, secret hash and territory tag, creates no      *)
(* second merchant and leaves the bound handle and the id unchanged; a row *)
(* with fewer than two name words or without four phone digits is skipped  *)
(* and changes nothing.                                                    *)
(***************************************************************************)
\* a roster row that is not skipped: two words at least in the normalised
\* name and four digits at least in the phone
RowCounts(row) ==
    /\ \E fn \in {fio_norm(row.fio)} : \E i \in 1..Len(fn) : fn[i] = " "
    /\ Cardinality({i \in 1..Len(row.phone) : row.phone[i] \in Digits}) >= 4

\* the last row of the file that counts and carries the normalised name fn; 0 when none
LastRowFor(file, fn) ==
    LET is == {i \in 1..Len(file) : RowCounts(file[i]) /\ fio_norm(file[i].fio) = fn}
    IN  IF is = {} THEN 0 ELSE CHOOSE i \in is : \A j \in is : j <= i

C25_RosterUpsert ==
    [][(/\ last'.at # last.at /\ last'.kind = "handle_merchants_file"
        /\ last'.result = "roster_done") =>
          \E tu \in {data[last'.user].upload_tu} : \E file \in {last'.key} :
              /\ \A r \in merchants : \E r2 \in merchants' :
                     /\ r2.id = r.id /\ r2.fio_norm = r.fio_norm
                     /\ r2.telegram_id = r.telegram_id
                     /\ \E k \in {LastRowFor(file, r.fio_norm)} :
                            IF k = 0
                            THEN r2 = r
                            ELSE /\ r2.fio = fio_display(file[k].fio)
                                 /\ r2.pass_hash =
                                        hash_last4(extract_last4_from_phone(file[k].phone))
                                 /\ r2.tu = tu
              /\ \A r1, r2 \in merchants' :
                     (r1.id = r2.id \/ r1.fio_norm = r2.fio_norm) => r1 = r2
              /\ \A r2 \in merchants' :
                     (\A r \in merchants : r.id # r2.id) =>
                         /\ LastRowFor(file, r2.fio_norm) # 0
                         /\ r2.telegram_id = NULL
              /\ (\A i \in 1..Len(file) : ~RowCounts(file[i])) =>
                     /\ merchants' = merchants /\ merch_seq' = merch_seq
                     /\ last'.events[1].arg = <<tu, 0, 0, Len(file)>>]_vars

\* C25 witness: a roster with merchant 1 in another spelling and with another
\* phone, and a row that is skipped, has been taken in while merchant 1 was
\* bound to handle 103
C25_Witness ==
    /\ last.kind = "handle_merchants_file" /\ last.result = "roster_done"
    /\ last.events[1].arg = <<"tu2", 0, 1, 1>>
    /\ Cardinality(merchants) = 2
    /\ \E r \in merchants :
           /\ r.id = 1 /\ r.telegram_id = 103 /\ r.tu = "tu2"
           /\ r.fio = <<"a", "b", "-", "B", "a">>
           /\ r.pass_hash = <<"sha256", "1", "2", "3", "4">>

(***************************************************************************)
(* SpecReceipt: the receipt handlers as tasks of one process.  Updates are *)
(* handled as concurrent tasks; a task runs without interruption up to its *)
(* first await on the network.  In _save_receipt_and_notify_tu that is the *)
(* send_photo to the territory supervisor, which comes after the UPDATE    *)
(* and before the handler's set_state(FillFlow.calendar): a second upload  *)
(* of the same session that arrives meanwhile still passes the             *)
(* PRFlow.waiting_receipt filter.                                          *)
(***************************************************************************)
\* the file ids of the photos and documents of an album
ReceiptFiles == {"f1", "f2"}

ReceiptHandlers == {"pr_receipt_photo", "pr_receipt_document"}

FreeTask(c) == tx[c].pc \in {"idle", "receipt_done"}

\* pr_receipt_photo or pr_receipt_document up to the await of send_photo:
\* the filter, the UPDATE with its commit, the reads for the caption
task_receipt_begin(c, kind, u, fid) ==
    LET rid == data[u].pr_reimb_id
        mid == get_merch_by_tg_id(u)
        tu  == get_tu_admin_id(IF mid = NULL THEN "" ELSE TuOf(mid))
    IN  /\ FreeTask(c)
        /\ fsm[u] = WaitingReceipt
        /\ rid # 0
        /\ data[u].cal_y # 0
        /\ tu # NULL
        /\ now' = now + 1
        /\ reimbursements' = reimbursements_set_receipt(reimbursements, rid, fid, now')
        /\ tx' = [tx EXCEPT ![c] = [Idle EXCEPT !.pc = "receipt_sending", !.user = u,
                                                !.key = <<kind, rid, fid, tu>>]]
        /\ last' = DidAdj(kind, u, now', "receipt_sending", NoKey, rid,
                          <<Ev("update_receipt", 0, TRUE, "", <<>>)>>)
        /\ UNCHANGED <<Ledgers, reimb_seq, point_rates, calc, fsm, data, menu>>

\* the rest of the handler: the send to the supervisor has returned, then
\* set_state(FillFlow.calendar), the answer and render_calendar
task_receipt_end(c, down) ==
    /\ tx[c].pc = "receipt_sending"
    /\ now' = now + 1
    /\ \E u \in {tx[c].user} : \E k \in {tx[c].key} :
           LET photo == Ev("send_photo", k[4], k[4] \notin down, "receipt", k[3])
               sends == IF photo.ok THEN <<photo>>
                        ELSE <<photo, Ev("send_document", k[4], k[4] \notin down,
                                         "receipt", k[3])>>
           IN  IF data[u].cal_y # 0
               THEN /\ RenderCalendar(u, Calendar, data[u], FALSE)
                    /\ last' = DidAdj(k[1], u, now', "receipt_saved", NoKey, k[2],
                                      sends \o <<Answer(u, "receipt_accepted"),
                                                 Ev("render", u, TRUE, "", <<>>)>>)
               ELSE /\ fsm' = [fsm EXCEPT ![u] = Calendar]
                    /\ UNCHANGED <<data, menu>>
                    /\ last' = DidAdj(k[1], u, now', "error", NoKey, k[2], sends)
    /\ tx' = [tx EXCEPT ![c].pc = "receipt_done"]
    /\ UNCHANGED <<Ledgers, Books>>

NextReceipt ==
    \/ \E u \in AdjHandles : fill_reconcile_start(u)
    \/ \E u \in AdjHandles, txt \in PointInputs : fill_reconcile_point(u, txt)
    \/ \E u \in AdjHandles : pr_start(u)
    \/ \E u \in AdjHandles : pr_cancel(u)
    \/ \E u \in AdjHandles, kind \in KindInputs : pr_kind(u, kind)
    \/ \E u \in AdjHandles, txt \in AmountInputs : pr_amount(u, txt)
    \/ \E u \in AdjHandles, txt \in CommentInputs, down \in DownSets : pr_text(u, txt, down)
    \/ \E c \in Conns, kind \in ReceiptHandlers, u \in AdjHandles, fid \in ReceiptFiles :
           task_receipt_begin(c, kind, u, fid)
    \/ \E c \in Conns, down \in DownSets : task_receipt_end(c, down)
    \/ \E u \in AdjHandles, txt \in CancelInputs : cancel_or_restart(u, txt)

SpecReceipt == InitAdj /\ [][NextReceipt]_vars

(***************************************************************************)
(* C26: the receipt reference of a reimbursement is set exactly once; once *)
(* it is set no later operation changes or clears it, a second upload in   *)
(* the same session and two uploads handled concurrently included.         *)
(***************************************************************************)
C26_ReceiptSetOnce ==
    [][\A r \in reimbursements :
          r.receipt_file_id # NoText =>
              \E r2 \in reimbursements' :
                  /\ r2.id = r.id
                  /\ r2.receipt_file_id = r.receipt_file_id
                  /\ r2.receipt_uploaded_at = r.receipt_uploaded_at]_vars

(***************************************************************************)
(* C27: when the operator abandons a reimbursement that awaits its receipt *)
(* by the message "Otmena" or "Zanovo", the row created for the draft is   *)
(* deleted if it still has no receipt, so that no receipt-less row of the  *)
(* draft survives; a row that has a receipt is never deleted by it.        *)
(***************************************************************************)
C27_CancelDeletesDraft ==
    [][(last'.at # last.at /\ last'.kind = "cancel_or_restart") =>
          /\ (fsm[last'.user] = WaitingReceipt /\ data[last'.user].pr_reimb_id # 0) =>
                 ~\E r \in reimbursements' : /\ r.id = data[last'.user].pr_reimb_id
                                              /\ r.receipt_file_id = NoText
          /\ \A r \in reimbursements : r.receipt_file_id # NoText => r \in reimbursements'
          /\ fsm'[last'.user] = NoState]_vars

(***************************************************************************)
(* C28: the receipt is a gate of the workflow: once the session awaits the *)
(* receipt of a reimbursement row, it gets back to the calendar only by    *)
(* attaching a receipt to that row; every other way out of the awaiting    *)
(* state ends the session.                                                 *)
(***************************************************************************)
\* this step gave row rid its receipt
ReceiptAttached(rid) ==
    /\ \E r \in reimbursements : r.id = rid /\ r.receipt_file_id = NoText
    /\ \E r \in reimbursements' : r.id = rid /\ r.receipt_file_id # NoText

C28_ReceiptGate ==
    [][\A u \in AdjHandles :
          (fsm[u] = WaitingReceipt /\ fsm'[u] # WaitingReceipt) =>
              \/ fsm'[u] = Calendar /\ ReceiptAttached(data[u].pr_reimb_id)
              \/ fsm'[u] = NoState]_vars

(***************************************************************************)
(* SpecFault: the datastore becomes unreachable during a handler.  Every   *)
(* database function opens its own connection and transaction; the        *)
(* statement that fails raises out of the handler (no handler catches it), *)
(* the transactions committed before it stay committed.                    *)
(***************************************************************************)
\* the statement at which the datastore is unreachable: the transaction of
\* the ledger write, the SELECT of get_submission_status, the UPDATE of
\* touch_updated_after_submit, the SELECT of the merchant's name after it
FailPoints == {"write", "status", "touch", "notify"}

\* what maybe_notify_post_submit_change has done to submissions when the
\* statement at fails
SubsAtFailure(at, mid, y, m, t) ==
    IF at = "notify" THEN touch_updated_after_submit(submissions, mid, y, m, t)
    ELSE submissions

\* _toggle_slot_and_refresh with the datastore unreachable at statement at
toggle_slot_fails(u, slot, day, at) ==
    LET point == data[u].point_code
        y == data[u].cal_y
        m == data[u].cal_m
        mid == get_merch_by_tg_id(u)
    IN  /\ now < MaxTime
        /\ point # ""
        /\ ValidDate(y, m, day)
        /\ slot = SLOT_FULL_INVENT => full_invent_allowed(y, m, day)
        /\ mid # NULL
        /\ at \in {"touch", "notify"} => get_submission_status(submissions, mid, y, m) # {}
        /\ now' = now + 1
        /\ \E r \in {add_or_remove_visit(visits, visit_seq, mid, point, <<y, m, day>>, slot)} :
               /\ visits' = IF at = "write" THEN visits ELSE r.rows
               /\ visit_seq' = IF at = "write" THEN visit_seq ELSE r.seq
               /\ submissions' = SubsAtFailure(at, mid, y, m, now')
               /\ last' = Did("cal_toggle_slot", u, now', slot, day, "raised",
                              <<mid, point, <<y, m, day>>, slot>>,
                              at # "write" /\ r.existed, at # "write" /\ r.added, FALSE,
                              VisitKeys(visits), <<>>)
        /\ UNCHANGED <<Books, merchants, merch_seq, supplies, sub_seq, fsm, data, menu, tx>>

\* pr_text with the datastore unreachable at statement at
pr_text_fails(u, txt, at) ==
    LET kind   == IF data[u].pr_kind = "" THEN KIND_NOTE ELSE data[u].pr_kind
        mid    == get_merch_by_tg_id(u)
        point  == data[u].point_code
        y      == data[u].cal_y
        m      == data[u].cal_m
    IN  /\ now < MaxTime
        /\ fsm[u] = WaitingText
        /\ txt # "otmena" /\ Len(txt) >= 3
        /\ mid # NULL
        /\ y # 0
        /\ at \in {"touch", "notify"} => get_submission_status(submissions, mid, y, m) # {}
        /\ now' = now + 1
        /\ \E ins \in {reimbursements_insert(reimbursements, reimb_seq, mid, point,
                                               month_start(y, m), data[u].pr_amount, txt, kind)} :
               /\ reimbursements' = IF at = "write" THEN reimbursements ELSE ins.rows
               /\ reimb_seq' = IF at = "write" THEN reimb_seq ELSE ins.seq
               /\ submissions' = SubsAtFailure(at, mid, y, m, now')
               /\ last' = DidAdj("pr_text", u, now', "raised", <<mid, point, month_start(y, m)>>,
                                 IF at = "write" THEN 0 ELSE ins.id, <<>>)
        /\ UNCHANGED <<Ledgers_but_submissions, point_rates, calc, fsm, data, menu, tx>>

NextFault ==
    \/ \E u \in AdjHandles : fill_reconcile_start(u)
    \/ \E u \in AdjHandles, txt \in PointInputs : fill_reconcile_point(u, txt)
    \/ \E u \in AdjHandles, down \in DownSets : submit_send(u, down)
    \/ \E u \in AdjHandles, slot \in SlotInputs, day \in DayInputs, down \in DownSets :
           cal_toggle_slot(u, slot, day, down)
    \/ \E u \in AdjHandles, kind \in KindInputs : pr_kind(u, kind)
    \/ \E u \in AdjHandles, txt \in AmountInputs : pr_amount(u, txt)
    \/ \E u \in AdjHandles, txt \in CommentInputs, down \in DownSets : pr_text(u, txt, down)
    \/ \E u \in AdjHandles, slot \in SlotInputs, day \in DayInputs, at \in FailPoints :
           toggle_slot_fails(u, slot, day, at)
    \/ \E u \in AdjHandles, txt \in CommentInputs, at \in FailPoints : pr_text_fails(u, txt, at)

SpecFault == InitAdj /\ [][NextFault]_vars

(***************************************************************************)
(* C29: if a failure occurs at any step of a toggle or of the creation of  *)
(* an adjustment in a month that is submitted, either neither the ledger   *)
(* change nor the audit touch is applied or both are; the ledger is never  *)
(* left changed while updated_after_submit_at was not updated.             *)
(***************************************************************************)
C29_FailureAtomic ==
    [][(last'.at # last.at /\ last'.result = "raised") =>
          \A s \in submissions :
              (/\ s.merchant_id = get_merch_by_tg_id(last'.user)
               /\ s.month_key = <<data[last'.user].cal_y, data[last'.user].cal_m, 1>>) =>
                  \/ /\ visits' = visits /\ reimbursements' = reimbursements
                     /\ s \in submissions'
                  \/ /\ visits' # visits \/ reimbursements' # reimbursements
                     /\ \E s2 \in submissions' :
                            s2.id = s.id /\ s2.updated_after_submit_at = now']_vars

(***************************************************************************)
(* C30: adjustment rows are append-only: no operator action changes the    *)
(* amount, memo, kind, merchant, point or month of a row that exists; the  *)
(* only changes to such a row are the setting of its receipt reference and *)
(* the deletion of a receipt-less reimbursement on cancel; a NOTE row is   *)
(* never modified or deleted.                                              *)
(***************************************************************************)
C30_AdjustmentsAppendOnly ==
    [][\A r \in reimbursements :
          /\ r.kind = KIND_NOTE => r \in reimbursements'
          /\ \A r2 \in reimbursements' :
                 (r2.id = r.id /\ r2 # r) =>
                     /\ r2.amount = r.amount /\ r2.note = r.note /\ r2.kind = r.kind
                     /\ r2.merchant_id = r.merchant_id /\ r2.point_code = r.point_code
                     /\ r2.month_key = r.month_key
                     /\ r2.receipt_file_id # NoText
                     /\ last'.kind \in {"pr_receipt_photo", "pr_receipt_document"}
          /\ (\A r2 \in reimbursements' : r2.id # r.id) =>
                 /\ r.kind = KIND_REIMB /\ r.receipt_file_id = NoText
                 /\ last'.kind = "cancel_or_restart"]_vars

\* C30 witness: the reimbursement of 350 with the memo "taxi" has received
\* its receipt and is otherwise as it was inserted
C30_Witness ==
    /\ last.kind \in {"pr_receipt_photo", "pr_receipt_document"}
    /\ last.result = "receipt_saved"
    /\ \E r \in reimbursements :
           /\ r.id = last.rid /\ r.kind = KIND_REIMB /\ r.amount = 350 /\ r.note = "taxi"
           /\ r.receipt_file_id = <<"f1">> /\ r.receipt_uploaded_at = last.at

(***************************************************************************)
(* SpecAmount: the adjustment flow of one operator with amounts at and     *)
(* around the digit-count guard.                                           *)
(***************************************************************************)
\* texts typed as an amount: the largest and the smallest amount the guard
\* lets through, eight digits, a lone sign, nothing, a digit between
\* blanks, a letter, a plus sign, minus zero, the cancel word
AmountTexts == {<<"9", "9", "9", "9", "9", "9", "9">>,
                <<"-", "9", "9", "9", "9", "9", "9", "9">>,
                <<"1", "0", "0", "0", "0", "0", "0", "0">>,
                <<"-">>, <<>>, <<" ", "7", " ">>, <<"3", "k">>, <<"+", "5">>,
                <<"-", "0">>, <<"o", "t", "m", "e", "n", "a">>}

NextAmount ==
    \/ \E u \in AdjHandles : fill_reconcile_start(u)
    \/ \E u \in AdjHandles, txt \in PointInputs : fill_reconcile_point(u, txt)
    \/ \E u \in AdjHandles : cal_done(u)
    \/ \E u \in AdjHandles : pr_start(u)
    \/ \E u \in AdjHandles : pr_cancel(u)
    \/ \E u \in AdjHandles, kind \in KindInputs : pr_kind(u, kind)
    \/ \E u \in AdjHandles, txt \in AmountTexts : pr_amount(u, txt)
    \/ \E u \in AdjHandles, txt \in CommentInputs, down \in DownSets : pr_text(u, txt, down)
    \/ \E u \in AdjHandles, txt \in CancelInputs : cancel_or_restart(u, txt)

SpecAmount == InitAdj /\ [][NextAmount]_vars

\* an optional minus sign followed by one to seven decimal digits
WellFormedAmount(t) ==
    \E n \in 1..7 : \E sign \in {0, 1} :
        /\ Len(t) = sign + n
        /\ sign = 1 => t[1] = "-"
        /\ \A i \in 1..n : t[sign + i] \in Digits

\* the number a digit character writes
DigitOf(c) == CHOOSE d \in 0..9 : ToString(d) = c

RECURSIVE Magnitude(_, _)
\* the number written by the digits of t from position i on
Magnitude(t, i) ==
    IF i > Len(t) THEN 0
    ELSE LET rest == Magnitude(t, i + 1)
             RECURSIVE Ten(_)
             Ten(k) == IF k = 0 THEN 1 ELSE 10 * Ten(k - 1)
         IN  DigitOf(t[i]) * Ten(Len(t) - i) + rest

\* the integer a well-formed amount text writes
AmountValue(t) == IF t[1] = "-" THEN 0 - Magnitude(t, 2) ELSE Magnitude(t, 1)

\* C31: an amount text is accepted exactly when, blanks around it removed,
\* it is an optional minus sign and one to seven digits; the accepted value
\* is the integer it writes (negative ones included) and the session moves
\* on to the comment; a malformed text creates no Adjustment row and leaves
\* the session in the amount-entry step with its data as they were; every
\* Adjustment row that is created carries the amount held by the session,
\* and every stored amount lies in -9999999..9999999.
C31_AmountGuard ==
    [][/\ (last'.kind = "pr_amount" /\ last'.result \in {"ok", "not_a_number"}) =>
            \E u \in {last'.user} : \E t \in {Strip(last'.key)} :
                /\ (last'.result = "ok") = WellFormedAmount(t)
                /\ last'.result = "ok" =>
                       /\ data'[u].pr_amount = AmountValue(t)
                       /\ fsm'[u] = WaitingText
                /\ last'.result = "not_a_number" =>
                       /\ fsm[u] = WaitingAmount /\ fsm'[u] = WaitingAmount
                       /\ data' = data
                /\ reimbursements' = reimbursements
       /\ \A r \in reimbursements' \ reimbursements :
              r.amount = data[last'.user].pr_amount
       /\ \A r \in reimbursements' : r.amount >= -9999999 /\ r.amount <= 9999999]_vars

\* the smallest amount was typed and its row is stored
C31_Witness ==
    /\ last.kind = "pr_text" /\ last.result \in {"note_added", "reimb_added"}
    /\ \E r \in reimbursements : r.id = last.rid /\ r.amount = -9999999

(***************************************************************************)
(* SpecNav: month navigation over a datastore whose supplies run across    *)
(* the turn of the year.                                                   *)
(***************************************************************************)
\* point 2674 has supplies in November and December 2026 and in January
\* 2027, point 3001 in October and November 2026
InitNav ==
    /\ merchants = {[id |-> 1, fio |-> <<"A", "b", " ", "B", "a">>,
                     fio_norm |-> <<"a", "b", " ", "b", "a">>,
                     pass_hash |-> <<"sha256", "6", "3", "8", "4">>,
                     telegram_id |-> 101, tu |-> "tu1"],
                    [id |-> 2, fio |-> <<"B", "a", " ", "A", "b">>,
                     fio_norm |-> <<"b", "a", " ", "a", "b">>,
                     pass_hash |-> <<"sha256", "1", "2", "3", "4">>,
                     telegram_id |-> 102, tu |-> ""]}
    /\ merch_seq = 2
    /\ supplies = {[point_code |-> "2674", supply_date |-> <<2026, 11, 5>>, boxes |-> 7],
                   [point_code |-> "2674", supply_date |-> <<2026, 12, 31>>, boxes |-> 3],
                   [point_code |-> "2674", supply_date |-> <<2027, 1, 1>>, boxes |-> 2],
                   [point_code |-> "3001", supply_date |-> <<2026, 10, 30>>, boxes |-> 4],
                   [point_code |-> "3001", supply_date |-> <<2026, 11, 6>>, boxes |-> 0]}
    /\ visits = {}
    /\ visit_seq = 0
    /\ submissions = {}
    /\ sub_seq = 0
    /\ reimbursements = {}
    /\ reimb_seq = 0
    /\ point_rates = {}
    /\ calc = NoCalc
    /\ now = 0
    /\ fsm = [u \in Handles |-> NoState]
    /\ data = [u \in Handles |-> EmptyData]
    /\ menu = [u \in Handles |-> NoMenu]
    /\ tx = [c \in Conns |-> Idle]
    /\ last = [kind |-> "init", user |-> 0, at |-> 0, slot |-> "", day |-> 0,
               result |-> "", key |-> NoKey, existed |-> FALSE, added |-> FALSE,
               created |-> FALSE, keysBefore |-> {}, events |-> <<>>, rid |-> 0,
               repeat |-> FALSE]

NextNav ==
    \/ \E u \in AdjHandles : fill_reconcile_start(u)
    \/ \E u \in AdjHandles, txt \in PointInputs : fill_reconcile_point(u, txt)
    \/ \E u \in AdjHandles : cal_done(u)
    \/ \E u \in AdjHandles : cal_back_point(u)
    \/ \E u \in AdjHandles, dir \in {"prev", "next"} : cal_nav(u, dir)
    \/ \E u \in AdjHandles, day \in DayInputs, down \in DownSets : cal_day_click(u, day, down)

SpecNav == InitNav /\ [][NextNav]_vars

\* months counted from year 0: the month after (y, 12) is (y + 1, 1)
MonthIndex(ym) == 12 * ym[1] + (ym[2] - 1)

MonthAt(i) == <<i \div 12, (i % 12) + 1>>

\* the month a session has selected
Selected(d) == <<d.cal_y, d.cal_m>>

\* C32: a month navigation that is carried out moves the selected month of
\* the session to the calendar month right after (next) or right before
\* (previous) it, the year following at the turn of the year; one that is
\* refused (no session, or no supply of the point in the target month)
\* leaves the session as it was; the month number of a session is always
\* in 1..12; and a previous pressed right after a next that was carried out
\* is carried out too when the starting month has supply, and brings the
\* session back to the starting (year, month).
C32_MonthNavigation ==
    [][/\ last'.kind = "cal_nav" =>
            \E u \in {last'.user} :
                /\ last'.result = "ok" =>
                       /\ Selected(data'[u]) =
                              MonthAt(MonthIndex(Selected(data[u]))
                                      + (IF last'.slot = "next" THEN 1 ELSE -1))
                       /\ point_has_any_supply_in_month(data[u].point_code,
                                                        data'[u].cal_y, data'[u].cal_m)
                       /\ data'[u] = [data[u] EXCEPT !.cal_y = data'[u].cal_y,
                                                     !.cal_m = data'[u].cal_m]
                /\ last'.result # "ok" => data' = data /\ fsm' = fsm
                /\ data[u].cal_y # 0 =>
                       \E target \in {MonthAt(MonthIndex(Selected(data[u]))
                                               + (IF last'.slot = "next" THEN 1 ELSE -1))} :
                           (last'.result = "ok") =
                               point_has_any_supply_in_month(data[u].point_code,
                                                             target[1], target[2])
                /\ (/\ last.kind = "cal_nav" /\ last.user = u /\ last.result = "ok"
                    /\ last.slot = "next" /\ last'.slot = "prev"
                    /\ point_has_any_supply_in_month(data[u].point_code,
                                                     last.key[1], last.key[2])) =>
                       /\ last'.result = "ok"
                       /\ Selected(data'[u]) = last.key
       /\ \A u \in Handles : data'[u].cal_y # 0 => data'[u].cal_m \in 1..12]_vars

\* next from December 2026 was carried out and previous brought the session
\* back from January 2027 to December 2026
C32_Witness ==
    /\ last.kind = "cal_nav" /\ last.result = "ok" /\ last.slot = "prev"
    /\ last.key = <<2027, 1>>
    /\ Selected(data[last.user]) = <<2026, 12>>

(***************************************************************************)
(* SpecFrame: the toggles of one operator over a datastore that already    *)
(* holds rows of both merchants.                                           *)
(***************************************************************************)
\* what earlier runs left behind: on Friday 2026-11-06 merchant 1 holds
\* FULL_INVENT at 2674 and DAY at 3001, merchant 2 holds DAY at 2674; on
\* Thursday 2026-11-05 merchant 1 holds DAY at 3001; each merchant has a note
\* at 2674; November may be submitted by both
InitFrame ==
    /\ merchants = {[id |-> 1, fio |-> <<"A", "b", " ", "B", "a">>,
                     fio_norm |-> <<"a", "b", " ", "b", "a">>,
                     pass_hash |-> <<"sha256", "6", "3", "8", "4">>,
                     telegram_id |-> 101, tu |-> "tu1"],
                    [id |-> 2, fio |-> <<"B", "a", " ", "A", "b">>,
                     fio_norm |-> <<"b", "a", " ", "a", "b">>,
                     pass_hash |-> <<"sha256", "1", "2", "3", "4">>,
                     telegram_id |-> 102, tu |-> ""]}
    /\ merch_seq = 2
    /\ supplies = {[point_code |-> "2674", supply_date |-> <<2026, 11, 5>>, boxes |-> 7],
                   [point_code |-> "2674", supply_date |-> <<2026, 12, 5>>, boxes |-> 3],
                   [point_code |-> "3001", supply_date |-> <<2026, 11, 6>>, boxes |-> 0]}
    /\ visits = {[id |-> 1, merchant_id |-> 1, point_code |-> "2674",
                  visit_date |-> <<2026, 11, 6>>, slot |-> SLOT_FULL_INVENT],
                 [id |-> 2, merchant_id |-> 2, point_code |-> "2674",
                  visit_date |-> <<2026, 11, 6>>, slot |-> SLOT_DAY],
                 [id |-> 3, merchant_id |-> 1, point_code |-> "3001",
                  visit_date |-> <<2026, 11, 6>>, slot |-> SLOT_DAY],
                 [id |-> 4, merchant_id |-> 1, point_code |-> "3001",
                  visit_date |-> <<2026, 11, 5>>, slot |-> SLOT_DAY]}
    /\ visit_seq = 4
    /\ submissions \in {{}, {[id |-> 1, merchant_id |-> 1, month_key |-> <<2026, 11, 1>>,
                               submitted_at |-> -2, updated_after_submit_at |-> NULL],
                              [id |-> 2, merchant_id |-> 2, month_key |-> <<2026, 11, 1>>,
                               submitted_at |-> -1, updated_after_submit_at |-> NULL]}}
    /\ sub_seq = Cardinality(submissions)
    /\ reimbursements = {r \in ReimbPool : r.id \in {1, 5}}
    /\ reimb_seq = 5
    /\ point_rates = {[point_code |-> "2674", month_key |-> <<2026, 11, 1>>,
                       rate_supply |-> 900, rate_no_supply |-> 500, rate_inventory |-> 450,
                       coffee_enabled |-> TRUE, pay_lt5 |-> FALSE]}
    /\ calc = NoCalc
    /\ now = 0
    /\ fsm = [u \in Handles |-> NoState]
    /\ data = [u \in Handles |-> EmptyData]
    /\ menu = [u \in Handles |-> NoMenu]
    /\ tx = [c \in Conns |-> Idle]
    /\ last = [kind |-> "init", user |-> 0, at |-> 0, slot |-> "", day |-> 0,
               result |-> "", key |-> NoKey, existed |-> FALSE, added |-> FALSE,
               created |-> FALSE, keysBefore |-> {}, events |-> <<>>, rid |-> 0,
               repeat |-> FALSE]

NextFrame ==
    \/ \E u \in AdjHandles : fill_reconcile_start(u)
    \/ \E u \in AdjHandles, txt \in PointInputs : fill_reconcile_point(u, txt)
    \/ \E u \in AdjHandles, dir \in {"prev", "next"} : cal_nav(u, dir)
    \/ \E u \in AdjHandles, day \in DayInputs, down \in DownSets : cal_day_click(u, day, down)
    \/ \E u \in AdjHandles, slot \in SlotInputs, day \in DayInputs, down \in DownSets :
           cal_toggle_slot(u, slot, day, down)

SpecFrame == InitFrame /\ [][NextFrame]_vars

\* the columns of a Submission row a toggle may not change
Submitted(subs) == {<<r.id, r.merchant_id, r.month_key, r.submitted_at>> : r \in subs}

\* C33: a toggle of key (merchant, point, date, slot kind) leaves every Visit
\* row of another key as it was (other merchants, other points, other
\* dates, the other slot kind on the same date), leaves every Adjustment,
\* Supply and PointRate row as it was, and neither creates nor removes a
\* Submission row nor changes the submitted_at of one.
C33_ToggleFrame ==
    [][IsToggle(last') =>
           /\ {r \in visits' : VisitKey(r) # last'.key}
                  = {r \in visits : VisitKey(r) # last'.key}
           /\ reimbursements' = reimbursements
           /\ supplies' = supplies
           /\ point_rates' = point_rates
           /\ Submitted(submissions') = Submitted(submissions)]_vars

\* merchant 1 removed its DAY row at 2674 on 2026-11-06 in a submitted month:
\* its FULL_INVENT row of that date, the DAY row of merchant 2 and its own
\* rows at 3001 are in place
C33_Witness ==
    /\ last.result = "removed"
    /\ last.key = <<1, "2674", <<2026, 11, 6>>, SLOT_DAY>>
    /\ \A i \in 1..4 : \E r \in visits : r.id = i
    /\ \E r \in submissions : r.merchant_id = 1 /\ r.updated_after_submit_at # NULL

(***************************************************************************)
(* SpecOwner: the ledger handlers of an operator handle whose binding can  *)
(* go away in the middle of a flow.  The administrator's handle 900 is     *)
(* logged in as merchant 2 (the login flow is open to every handle) and    *)
(* /unlink_me is the administrator's command to drop that binding.         *)
(***************************************************************************)
OwnerHandles == {900}

\* the calendar of point 2674 in November 2026, as fill_reconcile_point
\* leaves the session of a bound handle
AtCalendar == [EmptyData EXCEPT !.point_code = "2674", !.cal_y = 2026, !.cal_m = 11]

\* merchant 1 is bound to handle 103 and merchant 2 to handle 900, whose
\* session is fresh or at the calendar
InitOwner ==
    /\ merchants = {[id |-> 1, fio |-> <<"A", "b", " ", "B", "a">>,
                     fio_norm |-> <<"a", "b", " ", "b", "a">>,
                     pass_hash |-> <<"sha256", "6", "3", "8", "4">>,
                     telegram_id |-> 103, tu |-> "tu1"],
                    [id |-> 2, fio |-> <<"B", "a", " ", "A", "b">>,
                     fio_norm |-> <<"b", "a", " ", "a", "b">>,
                     pass_hash |-> <<"sha256", "1", "2", "3", "4">>,
                     telegram_id |-> 900, tu |-> ""]}
    /\ merch_seq = 2
    /\ supplies = {[point_code |-> "2674", supply_date |-> <<2026, 11, 5>>, boxes |-> 7],
                   [point_code |-> "2674", supply_date |-> <<2026, 12, 5>>, boxes |-> 3],
                   [point_code |-> "3001", supply_date |-> <<2026, 11, 6>>, boxes |-> 0]}
    /\ visits = {}
    /\ visit_seq = 0
    /\ submissions = {}
    /\ sub_seq = 0
    /\ reimbursements = {}
    /\ reimb_seq = 0
    /\ point_rates = {}
    /\ calc = NoCalc
    /\ now = 0
    /\ \E at \in BOOLEAN :
           /\ fsm = [u \in LoginHandles |-> IF at /\ u = 900 THEN Calendar ELSE NoState]
           /\ data = [u \in LoginHandles |-> IF at /\ u = 900 THEN AtCalendar ELSE EmptyData]
    /\ menu = [u \in LoginHandles |-> NoMenu]
    /\ tx = [c \in Conns |-> Idle]
    /\ last = [kind |-> "init", user |-> 0, at |-> 0, slot |-> "", day |-> 0,
               result |-> "", key |-> NoKey, existed |-> FALSE, added |-> FALSE,
               created |-> FALSE, keysBefore |-> {}, events |-> <<>>, rid |-> 0,
               repeat |-> FALSE]

NextOwner ==
    \/ \E u \in OwnerHandles : fill_reconcile_start(u)
    \/ \E u \in OwnerHandles, txt \in PointInputs : fill_reconcile_point(u, txt)
    \/ \E u \in OwnerHandles, slot \in SlotInputs, day \in DayInputs, down \in DownSets :
           cal_toggle_slot(u, slot, day, down)
    \/ \E u \in OwnerHandles, down \in DownSets : submit_send(u, down)
    \/ \E u \in OwnerHandles, kind \in KindInputs : pr_kind(u, kind)
    \/ \E u \in OwnerHandles, txt \in AmountInputs : pr_amount(u, txt)
    \/ \E u \in OwnerHandles, txt \in CommentInputs, down \in DownSets : pr_text(u, txt, down)
    \/ \E u \in OwnerHandles, fid \in FileInputs, down \in DownSets :
           pr_receipt_photo(u, fid, down)
    \/ \E u \in OwnerHandles, txt \in CancelInputs : cancel_or_restart(u, txt)
    \/ \E u \in OwnerHandles : unlink_me_cmd(u)

SpecOwner == InitOwner /\ [][NextOwner]_vars

\* the rows of a ledger that a step created, removed or changed
Touched(before, after) == (before \ after) \cup (after \ before)

\* C34: every Visit, Adjustment or Submission row that a session action
\* creates, removes or changes belongs to the merchant bound to the acting
\* handle when the action runs; in particular a handle with no bound
\* merchant changes no ledger row.
C34_OwnRowsOnly ==
    [][\A r \in Touched(visits, visits') \cup Touched(reimbursements, reimbursements')
                \cup Touched(submissions, submissions') :
           \E m \in merchants : m.telegram_id = last'.user /\ m.id = r.merchant_id]_vars

(***************************************************************************)
(* C35: how a handle comes to be bound.                                    *)
(***************************************************************************)
\* the pairs (merchant, handle bound to it)
Bindings(ms) == {<<r.id, r.telegram_id>> : r \in {x \in ms : x.telegram_id # NULL}}

\* the merchants whose name the session of u holds and whose stored digest
\* is the digest of the text t
Entitled(u, t) ==
    {r \in merchants : /\ r.fio_norm = fio_norm(data[u].fio)
                       /\ Len(r.pass_hash) = 5
                       /\ SubSeq(r.pass_hash, 2, 5) = t}

\* C35: a merchant gets a bound handle only in a step of the login handler
\* run by that handle, with four digits typed whose digest is the merchant's
\* stored digest and with the merchant's name in the session; a login step
\* with an unknown name or with digits of another digest leaves every
\* binding as it was; and /start sent by a bound handle ends with the
\* session cleared, outside the login flow.
C35_BindOnlyByLogin ==
    [][/\ \A b \in Bindings(merchants') \ Bindings(merchants) :
              /\ last'.kind = "login_get_last4" /\ last'.user = b[2]
              /\ IsFourDigits(Strip(last'.key))
              /\ \E r \in Entitled(b[2], Strip(last'.key)) : r.id = b[1]
       /\ (/\ last'.kind \in {"login_get_fio", "login_get_last4"}
           /\ Entitled(last'.user, Strip(last'.key)) = {}) =>
              /\ Bindings(merchants') = Bindings(merchants)
              /\ last'.result # "login_ok"
       /\ (/\ last'.kind = "start_handler"
           /\ \E r \in merchants : r.telegram_id = last'.user) =>
              /\ fsm'[last'.user] = NoState
              /\ data'[last'.user] = EmptyData
              /\ merchants' = merchants]_vars

\* handle 103 typed 6384 for merchant 1 and is bound to it
C35_Witness ==
    /\ last.kind = "login_get_last4" /\ last.result = "login_ok"
    /\ last.user = 103 /\ last.rid = 1 /\ Strip(last.key) = <<"6", "3", "8", "4">>
    /\ <<1, 103>> \in Bindings(merchants)

(***************************************************************************)
(* SpecSlot: toggle requests whose slot field is whatever the callback     *)
(* query carries.  The handler takes the field from cb.data; the buttons   *)
(* the bot renders carry DAY and FULL_INVENT, a query made by hand can     *)
(* carry any text.                                                         *)
(***************************************************************************)
SlotRequests == {SLOT_DAY, SLOT_FULL_INVENT, "X"}

NextSlot ==
    \/ \E u \in AdjHandles : fill_reconcile_start(u)
    \/ \E u \in AdjHandles, txt \in PointInputs : fill_reconcile_point(u, txt)
    \/ \E u \in AdjHandles, day \in DayInputs, down \in DownSets : cal_day_click(u, day, down)
    \/ \E u \in AdjHandles, slot \in SlotRequests, day \in DayInputs, down \in DownSets :
           cal_toggle_slot(u, slot, day, down)

SpecSlot == Init /\ [][NextSlot]_vars

\* C36: every stored Visit row has slot kind DAY or FULL_INVENT, whatever
\* slot value the toggle requests carried.
C36_SlotKinds == \A r \in visits : r.slot \in {SLOT_DAY, SLOT_FULL_INVENT}

(***************************************************************************)
(* SpecCollide: two toggles in flight at once, each in three steps: the    *)
(* SELECT of add_or_remove_visit, its DELETE or INSERT with the commit,    *)
(* and what _toggle_slot_and_refresh awaits after it (the audit call, the  *)
(* collision check on a connection of its own, the notifications, the      *)
(* re-render).  A toggle that has begun runs to its end.                   *)
(***************************************************************************)
\* the DELETE or INSERT of add_or_remove_visit and its commit
tx_toggle_commit(c) ==
    /\ tx[c].pc = "toggle_selected"
    /\ now' = now + 1
    /\ \E k \in {tx[c].key} :
       \E r \in {add_or_remove_visit_write(visits, visit_seq, tx[c].existing,
                                           k[1], k[2], k[3], k[4])} :
           /\ visits' = r.rows
           /\ visit_seq' = r.seq
           /\ tx' = [tx EXCEPT ![c].pc = "toggle_committed", ![c].existed = r.existed,
                               ![c].added = r.added]
    /\ UNCHANGED <<Books, merchants, merch_seq, supplies, submissions, sub_seq,
                   fsm, data, menu, last>>

\* the rest of _toggle_slot_and_refresh, over the rows committed by then
\* (tx.alarm: the collision notification was sent)
tx_toggle_follow(c, down) ==
    /\ tx[c].pc = "toggle_committed"
    /\ now' = now + 1
    /\ \E u \in {tx[c].user} : \E k \in {tx[c].key} :
       \E f \in {ToggleFollowUp(u, k[1], k[2], k[3][1], k[3][2], k[3][3],
                                [rows |-> visits, existed |-> tx[c].existed,
                                 added |-> tx[c].added], now', down)} :
           /\ submissions' = f.subs
           /\ RenderCalendar(u, fsm[u], data[u], FALSE)
           /\ tx' = [tx EXCEPT ![c].pc = "toggle_done",
                               ![c].alarm = \E i \in 1..Len(f.events) :
                                                /\ f.events[i].op = "send_message"
                                                /\ f.events[i].topic = "collision"]
           /\ last' = Did("cal_toggle_slot", u, now', k[4], k[3][3],
                          IF tx[c].existed THEN "removed" ELSE "added", k,
                          tx[c].existed, tx[c].added, FALSE, VisitKeys(visits),
                          <<Ev("add_or_remove_visit", 0, TRUE, "", <<>>)>> \o f.events)
    /\ UNCHANGED <<Books, merchants, merch_seq, supplies, visits, visit_seq, sub_seq>>

NextCollide ==
    \/ \E u \in Handles : fill_reconcile_start(u)
    \/ \E u \in Handles, txt \in PointInputs : fill_reconcile_point(u, txt)
    \/ \E c \in Conns, u \in Handles, slot \in SlotInputs, day \in DayInputs :
           tx_toggle_begin(c, u, slot, day)
    \/ \E c \in Conns : tx_toggle_commit(c)
    \/ \E c \in Conns, down \in DownSets : tx_toggle_follow(c, down)

SpecCollide == Init /\ [][NextCollide]_vars

\* two toggles of different merchants have run to their end, each added a
\* visit at the same point and date, and both hold theirs
DoubleBooked(c1, c2) ==
    /\ c1 # c2
    /\ tx[c1].pc = "toggle_done" /\ tx[c2].pc = "toggle_done"
    /\ tx[c1].added /\ tx[c2].added
    /\ tx[c1].key[1] # tx[c2].key[1]
    /\ tx[c1].key[2] = tx[c2].key[2] /\ tx[c1].key[3] = tx[c2].key[3]
    /\ tx[c1].key \in VisitKeys(visits) /\ tx[c2].key \in VisitKeys(visits)

\* C37: however the statements of two toggles of different merchants
\* interleave, when both added a visit at the same point and date and both
\* hold it, at least one of the two sent the collision notification for
\* that point and date.
C37_CollisionNotMissed ==
    \A c1 \in Conns, c2 \in Conns :
        DoubleBooked(c1, c2) => tx[c1].alarm \/ tx[c2].alarm

\* both additions were committed before either ran its collision check, and
\* both sent the notification
C37_Witness ==
    \E c1 \in Conns, c2 \in Conns :
        DoubleBooked(c1, c2) /\ tx[c1].alarm /\ tx[c2].alarm

(***************************************************************************)
(* C38: rows are created only where the point has supply.                  *)
(***************************************************************************)
\* the supply ledger holds a record of the point dated in month m of year y
SupplyRecorded(point, y, m) ==
    \E s \in supplies : /\ s.point_code = point
                        /\ s.supply_date[1] = y /\ s.supply_date[2] = m

\* C38: every Visit row and every Adjustment row that an operator action
\* creates is of a point and a month for which the supply ledger holds at
\* least one record of that point when the row is created, whatever the
\* sequence of point selections, month navigations, returns to the point
\* entry, toggles and adjustment entries before it.
C38_RowsWhereSupply ==
    [][/\ \A r \in visits' \ visits :
              SupplyRecorded(r.point_code, r.visit_date[1], r.visit_date[2])
       /\ \A r \in reimbursements' :
              (\A o \in reimbursements : o.id # r.id) =>
                  SupplyRecorded(r.point_code, r.month_key[1], r.month_key[2])]_vars

\* after a month navigation and a return to the point entry, a button of
\* the calendar rendered before added a visit of December 2026 at point 2674
C38_Witness ==
    /\ last.result = "added" /\ last.key \in VisitKeys(visits)
    /\ last.key[2] = "2674" /\ last.key[3][2] = 12
    /\ fsm[last.user] = WaitingPoint

(***************************************************************************)
(* C39: a cleared session is inert.                                        *)
(***************************************************************************)
\* C39: the 'done' action and the cancel/restart command leave the session
\* with no state and no data; and a handler run for a session that holds no
\* point (none selected since it was cleared) inserts, changes and deletes
\* no Visit, Adjustment or Submission row, whichever button of an earlier
\* calendar or menu or whichever message of the note/reimbursement flow
\* started it.
C39_ClearedSessionInert ==
    [][/\ last'.kind \in {"cal_done", "cancel_or_restart"} =>
              /\ fsm'[last'.user] = NoState
              /\ data'[last'.user] = EmptyData
       /\ (last'.at # last.at /\ data[last'.user].point_code = "") =>
              /\ visits' = visits
              /\ reimbursements' = reimbursements
              /\ submissions' = submissions]_vars

\* a visit was added, the session was cleared, and the slot button of the
\* old calendar was pressed: nothing happened
C39_Witness ==
    /\ last.kind = "cal_toggle_slot" /\ last.result = "no_session"
    /\ visits # {}
    /\ data[last.user] = EmptyData

====
